---- MODULE Spec2Model ----
(***************************************************************************)
(* A model of getmyancestors: the FamilySearch session (get_url / login),  *)
(* the Graph Store (Tree) with its traversal loops, and the detail tasks   *)
(* that run in the thread pool.                                            *)
(*                                                                         *)
(* The repository holds the session three times: classes/classes.py and    *)
(* getmyancestors.py (credential = the fssessionid cookie, read again at   *)
(* every send) and classes/session.py (credential = the Authorization      *)
(* header, copied into the call's own header dict once, before the retry   *)
(* loop).  The variable impl says which one a behaviour runs.              *)
(***************************************************************************)
EXTENDS Integers, Sequences, FiniteSets, TLC

(***************************************************************************)
(* Bounds of the model.                                                    *)
(***************************************************************************)
MaxTok == 3          \* tokens the identity server hands out in one behaviour
MaxDepth == 1        \* nested login() -> set_current() -> get_url() -> login()
MaxIndi == 4         \* Indi objects one behaviour constructs (Indi.counter)
MaxGen == 3          \* largest value of the -a / -d generation limits
MAX_PERSONS == 2     \* batch size of add_indis, scaled down from 200
MaxTries == 2        \* turns of the 'while True' of login() that end in a failure
MaxAcq == 2          \* acquisition requests of one run
MaxFiles == 2        \* files given to Merge.save

Threads == {"t1", "t2"}     \* worker threads of the default executor

None == "None"

VARIABLES
    \* ---- Session --------------------------------------------------------
    impl,          \* "classes" (classes.py, getmyancestors.py) or "session" (session.py)
    fssessionid,   \* the credential the Session object holds now (a token number)
    valid,         \* the tokens the server accepts
    nextTok,       \* next token the identity server will hand out
    pc,            \* per thread: position inside get_url / login
    hdr,           \* per thread: session.py's local headers dict (credential copied at entry)
    reqTok,        \* per thread: the credential carried by the request in flight
    status,        \* per thread: status code of the response received (0: none)
    body,          \* per thread: what the body of that response is
    ret,           \* per thread: value get_url returned ("-": not returned)
    frames,        \* per thread: credentials captured by the nested set_current get_url calls
    myTok,         \* per thread: token obtained by the login() this call ran (0: none)
    lastFail,      \* per thread: why the loop is at 'continue' ("none", "timeout", "connerr", "http")
    slept,         \* per thread: time.sleep(self.timeout) ran since the last attempt
    sentInLogin    \* per thread: the request in flight was sent while another thread was in login()

sessVars == <<impl, fssessionid, valid, nextTok, pc, hdr, reqTok, status, body,
              ret, frames, myTok, lastFail, slept, sentInLogin>>

VARIABLES
    \* ---- detail tasks of one fan-out (loop.run_in_executor) ----------------
    fanout,        \* "add_datas" (Tree.add_indis) or "add" (Tree.add_spouses)
    sources,       \* Tree.sources: source id -> Source object (0: no entry)
    srcObj,        \* the Source objects made so far, by object number: [fid, num]
    Source_counter, \* the class attribute Source.counter
    tpc,           \* per task: position inside add_data / add_marriage
    todo,          \* per task: source ids the running for-loop has still to visit
    quotes,        \* per task: keys of the quotes dict (add_marriage)
    new_sources,   \* per task: quotes.keys() - self.tree.sources.keys() (add_marriage)
    cur,           \* per task: the source id of the current loop iteration
    tmp,           \* per task: Source.counter as loaded by 'Source.counter += 1'
    mynum,         \* per task: self.num of the Source under construction
    held,          \* per task: Source objects in self.sources of the task's Indi / Fam
    failed         \* per task: a get_url of the task returned None

taskVars == <<fanout, sources, srcObj, Source_counter, tpc, todo, quotes,
              new_sources, cur, tmp, mynum, held, failed>>

VARIABLES
    \* ---- Tree (the Graph Store) ---------------------------------------------
    world,         \* what the server knows: [par: (father, mother, child), cpl: (p1, p2, relfid)]
    indi,          \* Tree.indi: fid -> Indi
    fam,           \* Tree.fam: (father, mother) -> Fam
    Indi_counter,  \* the class attribute Indi.counter
    Fam_counter,   \* the class attribute Fam.counter
    call,          \* the Tree method that is running ("none": no call)
    fids,          \* its argument
    new_fids,      \* add_indis: the ids still to request
    coll,          \* add_parents: parents; add_children, add_spouses: rels
    result,        \* what the last call returned
    reqs,          \* get_url calls made by the running call
    raised,        \* an exception left the last call
    \* ---- main / Download.download ---------------------------------------------
    mpc,           \* position in main
    seed,          \* args.individuals
    ascend,        \* args.ascend
    descend,       \* args.descend
    marriage,      \* args.marriage
    mtodo,         \* todo
    done,          \* done
    gen,           \* i of the running for-loop
    frontiers      \* the arguments given to add_parents / add_children in the running loop

treeVars == <<world, indi, fam, Indi_counter, Fam_counter, call, fids, new_fids,
              coll, result, reqs, raised>>

mainVars == <<mpc, seed, ascend, descend, marriage, mtodo, done, gen, frontiers>>

VARIABLES
    \* ---- the start of a run: Session.__init__, login(), the caller's test ------
    prog,          \* "main": getmyancestors.py / classes.py Session; "session": session.py
    password_ok,   \* the server accepts the credentials
    get_ordinances,\* args.get_ordinances
    lpc,           \* position in login() and in its caller
    logged,        \* Session.logged
    rejected,      \* the server has answered the credentials with a rejection
    lslept,        \* time.sleep(self.timeout) ran before this turn of login()
    tries,         \* failed turns of login()
    acq,           \* acquisition requests issued (person batches, detail fetches)
    acqKind        \* the kind of the last one

startVars == <<prog, password_ok, get_ordinances, lpc, logged, rejected, lslept, tries,
               acq, acqKind>>

VARIABLES
    \* ---- print, then Gedcom(file, tree) ----------------------------------------
    G,             \* the individual of the Tree that is printed
    file,          \* the lines written by Tree.print
    parsed,        \* the individual that Gedcom built from the file
    cpc            \* "built", "printed", "parsed"

codecVars == <<G, file, parsed, cpc>>

VARIABLES
    \* ---- cont(string), then Gedcom.__get_text ----------------------------------
    string,        \* the argument of cont: "1 T " and the value, as characters
    out,           \* the physical lines cont returned
    folded,        \* the text Gedcom.__get_text folds from them
    wpc            \* "given", "written", "read"

contVars == <<string, out, folded, wpc>>

VARIABLES
    \* ---- Merge.save -------------------------------------------------------------
    ged,           \* what Gedcom read from the file of this turn
    mtree,         \* tree.indi / tree.fam of the merge: one individual, one family
    notes,         \* tree.notes, a Note being its place in the list: text and num
    indi_counter,  \* the local counter of Merge.save
    fam_counter,   \* the local counter of Merge.save
    nread,         \* files read
    records,       \* the NOTE records Tree.print wrote
    spc            \* "reading", "renumbered", "printed"

mergeVars == <<ged, mtree, notes, indi_counter, fam_counter, nread, records, spc>>

VARIABLES
    \* ---- Gedcom.__parse ---------------------------------------------------------
    ged_f,         \* self.f: the physical lines of the file, each a level and a tag
    rdr,           \* lines read so far, self.flag, self.level, self.tag; eof: readline returned ""
    calls          \* the decoder's call stack, innermost last; <<>> once __parse returned

parseVars == <<ged_f, rdr, calls>>

VARIABLES
    \* ---- main after the login: the fan-outs of detail tasks, reset_num, print ----
    args,          \* args.marriage, args.get_ordinances, args.get_contributors
    couple_rels,   \* the relationship ids the server reports for the couple (B, C)
    rpc,           \* position in main
    job,           \* per task given to run_in_executor: "none", "queued", ..., "done", "failed"
    sent,          \* tasks the running fan-out has dispatched
    tindi,         \* keys of tree.indi
    tfam,          \* the Fam of (B, C): in tree.fam or not, its fid, whose facts it holds
    assigned,      \* the values 'self.fid = fid' has stored in it, in order
    wlog,          \* writes of the running fan-out: (task, entity, field)
    mreqs,         \* get_url calls of add_marriage: (relfid of the call, relfid in the url)
    recorded,      \* add_indis has recorded the relationship tuples of the batch
    ended,         \* fan-outs that returned to their caller
    resets,        \* calls of Tree.reset_num
    busy           \* the tasks that had not ended when reset_num ran

runVars == <<args, couple_rels, rpc, job, sent, tindi, tfam, assigned, wlog, mreqs,
             recorded, ended, resets, busy>>

vars == <<sessVars, taskVars, treeVars, mainVars, startVars, codecVars, contVars, mergeVars, parseVars, runVars>>

(***************************************************************************)
(* Session.get_url                                                         *)
(***************************************************************************)

\* the statuses after which get_url returns None at once
SoftStatusesNo500 == {404, 405, 410}
SoftStatuses == {404, 405, 410, 500}

\* the statuses a server answers an authenticated request with
OkStatuses == {200, 204, 403, 404, 405, 410, 500, 503}

Bodies(s) == IF s = 200 THEN {"json", "garbage"}
             ELSE IF s = 403 THEN {"ordinances", "other"}
             ELSE {"-"}

InLogin(t) == pc[t] \in {"login", "current"}

SessInit ==
    /\ impl \in {"classes", "session"}
    /\ fssessionid = 1
    /\ valid = {1}
    /\ nextTok = 2
    /\ pc = [t \in Threads |-> "idle"]
    /\ hdr = [t \in Threads |-> 0]
    /\ reqTok = [t \in Threads |-> 0]
    /\ status = [t \in Threads |-> 0]
    /\ body = [t \in Threads |-> "-"]
    /\ ret = [t \in Threads |-> "-"]
    /\ frames = [t \in Threads |-> <<>>]
    /\ myTok = [t \in Threads |-> 0]
    /\ lastFail = [t \in Threads |-> "none"]
    /\ slept = [t \in Threads |-> FALSE]
    /\ sentInLogin = [t \in Threads |-> FALSE]

\* entry of get_url: session.py copies self.headers into the call's headers
Call(t) ==
    /\ pc[t] = "idle"
    /\ pc' = [pc EXCEPT ![t] = "send"]
    /\ hdr' = [hdr EXCEPT ![t] = IF impl = "session" THEN fssessionid ELSE 0]
    /\ UNCHANGED <<impl, fssessionid, valid, nextTok, reqTok, status, body, ret,
                   frames, myTok, lastFail, slept, sentInLogin>>

\* the credential a request of thread t carries
Credential(t) == IF impl = "session" THEN hdr[t] ELSE fssessionid

\* requests.get(...) / self.get(...) inside the loop
Send(t) ==
    /\ pc[t] = "send"
    /\ pc' = [pc EXCEPT ![t] = "wait"]
    /\ reqTok' = [reqTok EXCEPT ![t] = Credential(t)]
    /\ sentInLogin' = [sentInLogin EXCEPT ![t] = \E u \in Threads \ {t} : InLogin(u)]
    /\ slept' = [slept EXCEPT ![t] = FALSE]
    /\ lastFail' = [lastFail EXCEPT ![t] = "none"]
    /\ status' = [status EXCEPT ![t] = 0]
    /\ body' = [body EXCEPT ![t] = "-"]
    /\ UNCHANGED <<impl, fssessionid, valid, nextTok, hdr, ret, frames, myTok>>

\* except requests.exceptions.ReadTimeout: continue
ReadTimeout(t) ==
    /\ pc[t] = "wait"
    /\ pc' = [pc EXCEPT ![t] = "send"]
    /\ lastFail' = [lastFail EXCEPT ![t] = "timeout"]
    /\ UNCHANGED <<impl, fssessionid, valid, nextTok, hdr, reqTok, status, body,
                   ret, frames, myTok, slept, sentInLogin>>

\* a ConnectionError handled like a ReadTimeout (no sleep)
ConnectionErrorNoSleep(t) ==
    /\ pc[t] = "wait"
    /\ pc' = [pc EXCEPT ![t] = "send"]
    /\ lastFail' = [lastFail EXCEPT ![t] = "connerr"]
    /\ UNCHANGED <<impl, fssessionid, valid, nextTok, hdr, reqTok, status, body,
                   ret, frames, myTok, slept, sentInLogin>>

\* except requests.exceptions.ConnectionError: time.sleep(self.timeout); continue
ConnectionError(t) ==
    /\ pc[t] = "wait"
    /\ pc' = [pc EXCEPT ![t] = "sleep"]
    /\ lastFail' = [lastFail EXCEPT ![t] = "connerr"]
    /\ UNCHANGED <<impl, fssessionid, valid, nextTok, hdr, reqTok, status, body,
                   ret, frames, myTok, slept, sentInLogin>>

\* time.sleep(self.timeout) is over
Wake(t) ==
    /\ pc[t] = "sleep"
    /\ pc' = [pc EXCEPT ![t] = "send"]
    /\ slept' = [slept EXCEPT ![t] = TRUE]
    /\ UNCHANGED <<impl, fssessionid, valid, nextTok, hdr, reqTok, status, body,
                   ret, frames, myTok, lastFail, sentInLogin>>

\* the server answers: 401 for a credential it does not accept
Respond(t) ==
    /\ pc[t] = "wait"
    /\ pc' = [pc EXCEPT ![t] = "got"]
    /\ IF reqTok[t] \in valid
          THEN \E s \in OkStatuses : \E b \in Bodies(s) :
                   /\ status' = [status EXCEPT ![t] = s]
                   /\ body' = [body EXCEPT ![t] = b]
          ELSE /\ status' = [status EXCEPT ![t] = 401]
               /\ body' = [body EXCEPT ![t] = "-"]
    /\ UNCHANGED <<impl, fssessionid, valid, nextTok, hdr, reqTok, ret, frames,
                   myTok, lastFail, slept, sentInLogin>>

Finish(t, value) ==
    /\ pc' = [pc EXCEPT ![t] = "done"]
    /\ ret' = [ret EXCEPT ![t] = value]
    /\ UNCHANGED <<lastFail>>

\* the status dispatch of get_url, from "Status code: %s" to the end of the loop body
Handle(t) ==
    /\ pc[t] = "got"
    /\ IF status[t] = 204 THEN Finish(t, None)
       ELSE IF status[t] \in SoftStatuses THEN Finish(t, None)
       ELSE IF status[t] = 401
          THEN /\ pc' = [pc EXCEPT ![t] = "login"]
               /\ UNCHANGED <<ret, lastFail>>
       ELSE IF status[t] = 403
          THEN Finish(t, IF body[t] = "ordinances" THEN "error" ELSE None)
       ELSE IF status[t] # 200
          THEN /\ pc' = [pc EXCEPT ![t] = "sleep"]
               /\ lastFail' = [lastFail EXCEPT ![t] = "http"]
               /\ UNCHANGED <<ret>>
       ELSE Finish(t, IF body[t] = "json" THEN "json" ELSE None)
    /\ UNCHANGED <<impl, fssessionid, valid, nextTok, hdr, reqTok, status, body,
                   frames, myTok, slept, sentInLogin>>

(***************************************************************************)
(* Session.login, called from get_url on a 401.  Its own requests to the   *)
(* identity server are one step; then set_current() calls get_url.         *)
(***************************************************************************)
LoginDone(t) ==
    /\ pc[t] = "login"
    /\ nextTok <= MaxTok
    /\ fssessionid' = nextTok
    /\ valid' = valid \cup {nextTok}
    /\ nextTok' = nextTok + 1
    /\ myTok' = [myTok EXCEPT ![t] = nextTok]
    /\ frames' = [frames EXCEPT ![t] =
                     Append(@, IF impl = "session" THEN nextTok ELSE 0)]
    /\ pc' = [pc EXCEPT ![t] = "current"]
    /\ UNCHANGED <<impl, hdr, reqTok, status, body, ret, lastFail, slept,
                   sentInLogin>>

\* the credential the innermost set_current request of t carries
CurrentCredential(t) ==
    IF impl = "session" THEN frames[t][Len(frames[t])] ELSE fssessionid

\* set_current's get_url got an answer (data or None): login() returns, and the
\* get_url that called it goes to 'continue'
SetCurrentReturns(t) ==
    /\ pc[t] = "current"
    /\ CurrentCredential(t) \in valid
    /\ frames' = [frames EXCEPT ![t] = SubSeq(@, 1, Len(@) - 1)]
    /\ pc' = [pc EXCEPT ![t] = IF Len(frames[t]) = 1 THEN "send" ELSE "current"]
    /\ UNCHANGED <<impl, fssessionid, valid, nextTok, hdr, reqTok, status, body,
                   ret, myTok, lastFail, slept, sentInLogin>>

\* set_current's get_url got a 401: a nested login()
SetCurrent401(t) ==
    /\ pc[t] = "current"
    /\ CurrentCredential(t) \notin valid
    /\ Len(frames[t]) <= MaxDepth
    /\ pc' = [pc EXCEPT ![t] = "login"]
    /\ UNCHANGED <<impl, fssessionid, valid, nextTok, hdr, reqTok, status, body,
                   ret, frames, myTok, lastFail, slept, sentInLogin>>

\* the caller takes the result; the thread is free for the next get_url
Return(t) ==
    /\ pc[t] = "done"
    /\ pc' = [pc EXCEPT ![t] = "idle"]
    /\ hdr' = [hdr EXCEPT ![t] = 0]
    /\ reqTok' = [reqTok EXCEPT ![t] = 0]
    /\ status' = [status EXCEPT ![t] = 0]
    /\ body' = [body EXCEPT ![t] = "-"]
    /\ ret' = [ret EXCEPT ![t] = "-"]
    /\ myTok' = [myTok EXCEPT ![t] = 0]
    /\ lastFail' = [lastFail EXCEPT ![t] = "none"]
    /\ slept' = [slept EXCEPT ![t] = FALSE]
    /\ sentInLogin' = [sentInLogin EXCEPT ![t] = FALSE]
    /\ UNCHANGED <<impl, fssessionid, valid, nextTok, frames>>

\* the server ends every session it knows
Expire ==
    /\ valid # {}
    /\ valid' = {}
    /\ UNCHANGED <<impl, fssessionid, nextTok, pc, hdr, reqTok, status, body, ret,
                   frames, myTok, lastFail, slept, sentInLogin>>

SessNext ==
    \/ \E t \in Threads : Call(t) /\ UNCHANGED <<taskVars, treeVars, mainVars, startVars, codecVars, contVars, mergeVars, parseVars, runVars>>
    \/ \E t \in Threads : Send(t) /\ UNCHANGED <<taskVars, treeVars, mainVars, startVars, codecVars, contVars, mergeVars, parseVars, runVars>>
    \/ \E t \in Threads : ReadTimeout(t) /\ UNCHANGED <<taskVars, treeVars, mainVars, startVars, codecVars, contVars, mergeVars, parseVars, runVars>>
    \/ \E t \in Threads : ConnectionError(t) /\ UNCHANGED <<taskVars, treeVars, mainVars, startVars, codecVars, contVars, mergeVars, parseVars, runVars>>
    \/ \E t \in Threads : Wake(t) /\ UNCHANGED <<taskVars, treeVars, mainVars, startVars, codecVars, contVars, mergeVars, parseVars, runVars>>
    \/ \E t \in Threads : Respond(t) /\ UNCHANGED <<taskVars, treeVars, mainVars, startVars, codecVars, contVars, mergeVars, parseVars, runVars>>
    \/ \E t \in Threads : Handle(t) /\ UNCHANGED <<taskVars, treeVars, mainVars, startVars, codecVars, contVars, mergeVars, parseVars, runVars>>
    \/ \E t \in Threads : LoginDone(t) /\ UNCHANGED <<taskVars, treeVars, mainVars, startVars, codecVars, contVars, mergeVars, parseVars, runVars>>
    \/ \E t \in Threads : SetCurrentReturns(t) /\ UNCHANGED <<taskVars, treeVars, mainVars, startVars, codecVars, contVars, mergeVars, parseVars, runVars>>
    \/ \E t \in Threads : SetCurrent401(t) /\ UNCHANGED <<taskVars, treeVars, mainVars, startVars, codecVars, contVars, mergeVars, parseVars, runVars>>
    \/ \E t \in Threads : Return(t) /\ UNCHANGED <<taskVars, treeVars, mainVars, startVars, codecVars, contVars, mergeVars, parseVars, runVars>>
    \/ Expire /\ UNCHANGED <<taskVars, treeVars, mainVars, startVars, codecVars, contVars, mergeVars, parseVars, runVars>>

(***************************************************************************)
(* The detail tasks of one fan-out.  Tree.add_indis hands one              *)
(* Indi.add_data per person of the batch to the executor's threads,        *)
(* Tree.add_spouses one Fam.add_marriage per couple; the tasks of a        *)
(* fan-out share Tree.sources and Source.counter and take no lock.  A      *)
(* thread can be switched between any two of the steps below.              *)
(***************************************************************************)
SrcIds == {"s1", "s2"}      \* source ids the server's answers can name

Known(id) == sources[id] # 0

\* the state before a fan-out: nothing known yet, or s1 known from an earlier batch
TaskInit ==
    /\ fanout \in {"add_datas", "add"}
    /\ \/ /\ sources = [id \in SrcIds |-> 0]
          /\ srcObj = <<>>
          /\ Source_counter = 0
       \/ /\ sources = [id \in SrcIds |-> IF id = "s1" THEN 1 ELSE 0]
          /\ srcObj = <<[fid |-> "s1", num |-> 1]>>
          /\ Source_counter = 1
    /\ tpc = [t \in Threads |-> "start"]
    /\ todo = [t \in Threads |-> {}]
    /\ quotes = [t \in Threads |-> {}]
    /\ new_sources = [t \in Threads |-> {}]
    /\ cur = [t \in Threads |-> None]
    /\ tmp = [t \in Threads |-> 0]
    /\ mynum = [t \in Threads |-> 0]
    /\ held = [t \in Threads |-> {}]
    /\ failed = [t \in Threads |-> FALSE]

\* the task variables of a behaviour that runs no fan-out
TaskIdle ==
    /\ fanout = "none"
    /\ sources = [id \in SrcIds |-> 0]
    /\ srcObj = <<>>
    /\ Source_counter = 0
    /\ tpc = [t \in Threads |-> "done"]
    /\ todo = [t \in Threads |-> {}]
    /\ quotes = [t \in Threads |-> {}]
    /\ new_sources = [t \in Threads |-> {}]
    /\ cur = [t \in Threads |-> None]
    /\ tmp = [t \in Threads |-> 0]
    /\ mynum = [t \in Threads |-> 0]
    /\ held = [t \in Threads |-> {}]
    /\ failed = [t \in Threads |-> FALSE]

\* ---- Indi.add_data: the "sources" part, then the "evidence" part -------
\* sources = get_url(".../persons/%s/sources"); 'if sources:' guards the loop
AddData_FetchSources(t) ==
    /\ fanout = "add_datas" /\ tpc[t] = "start"
    /\ \/ /\ failed' = [failed EXCEPT ![t] = TRUE]
          /\ tpc' = [tpc EXCEPT ![t] = "evidence"]
          /\ UNCHANGED todo
       \/ \E S \in SUBSET SrcIds \ {{}} :
             /\ todo' = [todo EXCEPT ![t] = S]
             /\ tpc' = [tpc EXCEPT ![t] = "loop"]
             /\ UNCHANGED failed
    /\ UNCHANGED <<fanout, sources, srcObj, Source_counter, quotes, new_sources,
                   cur, tmp, mynum, held>>

\* for source in sources["sourceDescriptions"]: if source["id"] not in self.tree.sources
AddData_Check(t) ==
    /\ fanout = "add_datas" /\ tpc[t] = "loop" /\ todo[t] # {}
    /\ \E id \in todo[t] :
          /\ cur' = [cur EXCEPT ![t] = id]
          /\ tpc' = [tpc EXCEPT ![t] = IF Known(id) THEN "link" ELSE "ctor_load"]
    /\ UNCHANGED <<fanout, sources, srcObj, Source_counter, todo, quotes,
                   new_sources, tmp, mynum, held, failed>>

\* self.sources.add((self.tree.sources[source["id"]], quotes[source["id"]]))
AddData_Link(t) ==
    /\ fanout = "add_datas" /\ tpc[t] = "link"
    /\ held' = [held EXCEPT ![t] = @ \cup {sources[cur[t]]}]
    /\ todo' = [todo EXCEPT ![t] = @ \ {cur[t]}]
    /\ tpc' = [tpc EXCEPT ![t] = "loop"]
    /\ UNCHANGED <<fanout, sources, srcObj, Source_counter, quotes, new_sources,
                   cur, tmp, mynum, failed>>

\* the for-loop is over: on to 'if "evidence" in data'
AddData_LoopEnd(t) ==
    /\ fanout = "add_datas" /\ tpc[t] = "loop" /\ todo[t] = {}
    /\ tpc' = [tpc EXCEPT ![t] = "evidence"]
    /\ UNCHANGED <<fanout, sources, srcObj, Source_counter, todo, quotes,
                   new_sources, cur, tmp, mynum, held, failed>>

\* memorie = get_url(".../memories"); 'if memorie and ...' guards the loop
AddData_FetchMemories(t) ==
    /\ fanout = "add_datas" /\ tpc[t] = "evidence"
    /\ \E none \in BOOLEAN : failed' = [failed EXCEPT ![t] = @ \/ none]
    /\ tpc' = [tpc EXCEPT ![t] = "done"]
    /\ UNCHANGED <<fanout, sources, srcObj, Source_counter, todo, quotes,
                   new_sources, cur, tmp, mynum, held>>

\* ---- Source.__init__: Source.counter += 1; self.num = Source.counter ----
Source_LoadCounter(t) ==
    /\ tpc[t] = "ctor_load"
    /\ tmp' = [tmp EXCEPT ![t] = Source_counter]
    /\ tpc' = [tpc EXCEPT ![t] = "ctor_store"]
    /\ UNCHANGED <<fanout, sources, srcObj, Source_counter, todo, quotes,
                   new_sources, cur, mynum, held, failed>>

Source_StoreCounter(t) ==
    /\ tpc[t] = "ctor_store"
    /\ Source_counter' = tmp[t] + 1
    /\ tpc' = [tpc EXCEPT ![t] = "ctor_num"]
    /\ UNCHANGED <<fanout, sources, srcObj, todo, quotes, new_sources, cur, tmp,
                   mynum, held, failed>>

Source_SetNum(t) ==
    /\ tpc[t] = "ctor_num"
    /\ mynum' = [mynum EXCEPT ![t] = Source_counter]
    /\ tpc' = [tpc EXCEPT ![t] = "publish"]
    /\ UNCHANGED <<fanout, sources, srcObj, Source_counter, todo, quotes,
                   new_sources, cur, tmp, held, failed>>

\* self.tree.sources[source["id"]] = Source(source, self.tree)
Publish(t) ==
    /\ tpc[t] = "publish"
    /\ srcObj' = Append(srcObj, [fid |-> cur[t], num |-> mynum[t]])
    /\ sources' = [sources EXCEPT ![cur[t]] = Len(srcObj) + 1]
    /\ tpc' = [tpc EXCEPT ![t] = IF fanout = "add_datas" THEN "link" ELSE "mloop"]
    /\ todo' = [todo EXCEPT ![t] = IF fanout = "add_datas" THEN @ ELSE @ \ {cur[t]}]
    /\ UNCHANGED <<fanout, Source_counter, quotes, new_sources, cur, tmp, mynum,
                   held, failed>>

\* ---- Fam.add_marriage ----------------------------------------------------
\* data = get_url(".../couple-relationships/%s"); the quotes dict of its "sources"
AddMarriage_FetchCouple(t) ==
    /\ fanout = "add" /\ tpc[t] = "start"
    /\ \/ /\ failed' = [failed EXCEPT ![t] = TRUE]
          /\ tpc' = [tpc EXCEPT ![t] = "done"]
          /\ UNCHANGED quotes
       \/ \E Q \in SUBSET SrcIds :
             /\ quotes' = [quotes EXCEPT ![t] = Q]
             /\ tpc' = [tpc EXCEPT ![t] = IF Q = {} THEN "done" ELSE "snap"]
             /\ UNCHANGED failed
    /\ UNCHANGED <<fanout, sources, srcObj, Source_counter, todo, new_sources,
                   cur, tmp, mynum, held>>

\* new_sources = quotes.keys() - self.tree.sources.keys(); if new_sources:
AddMarriage_NewSources(t) ==
    /\ fanout = "add" /\ tpc[t] = "snap"
    /\ LET new == {id \in quotes[t] : ~Known(id)} IN
          /\ new_sources' = [new_sources EXCEPT ![t] = new]
          /\ tpc' = [tpc EXCEPT ![t] = IF new = {} THEN "quotes" ELSE "fetch"]
          /\ todo' = [todo EXCEPT ![t] = IF new = {} THEN quotes[t] ELSE @]
    /\ UNCHANGED <<fanout, sources, srcObj, Source_counter, quotes, cur, tmp,
                   mynum, held, failed>>

\* sources = get_url(".../couple-relationships/%s/sources");
\* for source in sources["sourceDescriptions"]: no test of sources, so None
\* raises TypeError out of the task
AddMarriage_FetchSources(t) ==
    /\ fanout = "add" /\ tpc[t] = "fetch"
    /\ \/ /\ failed' = [failed EXCEPT ![t] = TRUE]
          /\ tpc' = [tpc EXCEPT ![t] = "raised"]
          /\ UNCHANGED todo
       \/ /\ todo' = [todo EXCEPT ![t] = quotes[t]]
          /\ tpc' = [tpc EXCEPT ![t] = "mloop"]
          /\ UNCHANGED failed
    /\ UNCHANGED <<fanout, sources, srcObj, Source_counter, quotes, new_sources,
                   cur, tmp, mynum, held>>

\* if source["id"] in new_sources and source["id"] not in self.tree.sources
AddMarriage_Check(t) ==
    /\ fanout = "add" /\ tpc[t] = "mloop" /\ todo[t] # {}
    /\ \E id \in todo[t] :
          /\ cur' = [cur EXCEPT ![t] = id]
          /\ IF id \in new_sources[t] /\ ~Known(id)
                THEN /\ tpc' = [tpc EXCEPT ![t] = "ctor_load"]
                     /\ UNCHANGED todo
                ELSE /\ todo' = [todo EXCEPT ![t] = @ \ {id}]
                     /\ UNCHANGED tpc
    /\ UNCHANGED <<fanout, sources, srcObj, Source_counter, quotes, new_sources,
                   tmp, mynum, held, failed>>

\* the loop over the descriptions is over: on to 'for source_fid in quotes'
AddMarriage_LoopEnd(t) ==
    /\ fanout = "add" /\ tpc[t] = "mloop" /\ todo[t] = {}
    /\ todo' = [todo EXCEPT ![t] = quotes[t]]
    /\ tpc' = [tpc EXCEPT ![t] = "quotes"]
    /\ UNCHANGED <<fanout, sources, srcObj, Source_counter, quotes, new_sources,
                   cur, tmp, mynum, held, failed>>

\* self.sources.add((self.tree.sources[source_fid], quotes[source_fid]))
AddMarriage_Link(t) ==
    /\ fanout = "add" /\ tpc[t] = "quotes"
    /\ IF todo[t] = {}
          THEN /\ tpc' = [tpc EXCEPT ![t] = "done"]
               /\ UNCHANGED <<held, todo>>
          ELSE \E id \in todo[t] :
                  /\ held' = [held EXCEPT ![t] = @ \cup {sources[id]}]
                  /\ todo' = [todo EXCEPT ![t] = @ \ {id}]
                  /\ UNCHANGED tpc
    /\ UNCHANGED <<fanout, sources, srcObj, Source_counter, quotes, new_sources,
                   cur, tmp, mynum, failed>>

TaskNext ==
    \/ \E t \in Threads : AddData_FetchSources(t) /\ UNCHANGED <<sessVars, treeVars, mainVars, startVars, codecVars, contVars, mergeVars, parseVars, runVars>>
    \/ \E t \in Threads : AddData_Check(t) /\ UNCHANGED <<sessVars, treeVars, mainVars, startVars, codecVars, contVars, mergeVars, parseVars, runVars>>
    \/ \E t \in Threads : AddData_Link(t) /\ UNCHANGED <<sessVars, treeVars, mainVars, startVars, codecVars, contVars, mergeVars, parseVars, runVars>>
    \/ \E t \in Threads : AddData_LoopEnd(t) /\ UNCHANGED <<sessVars, treeVars, mainVars, startVars, codecVars, contVars, mergeVars, parseVars, runVars>>
    \/ \E t \in Threads : AddData_FetchMemories(t) /\ UNCHANGED <<sessVars, treeVars, mainVars, startVars, codecVars, contVars, mergeVars, parseVars, runVars>>
    \/ \E t \in Threads : Source_LoadCounter(t) /\ UNCHANGED <<sessVars, treeVars, mainVars, startVars, codecVars, contVars, mergeVars, parseVars, runVars>>
    \/ \E t \in Threads : Source_StoreCounter(t) /\ UNCHANGED <<sessVars, treeVars, mainVars, startVars, codecVars, contVars, mergeVars, parseVars, runVars>>
    \/ \E t \in Threads : Source_SetNum(t) /\ UNCHANGED <<sessVars, treeVars, mainVars, startVars, codecVars, contVars, mergeVars, parseVars, runVars>>
    \/ \E t \in Threads : Publish(t) /\ UNCHANGED <<sessVars, treeVars, mainVars, startVars, codecVars, contVars, mergeVars, parseVars, runVars>>
    \/ \E t \in Threads : AddMarriage_FetchCouple(t) /\ UNCHANGED <<sessVars, treeVars, mainVars, startVars, codecVars, contVars, mergeVars, parseVars, runVars>>
    \/ \E t \in Threads : AddMarriage_NewSources(t) /\ UNCHANGED <<sessVars, treeVars, mainVars, startVars, codecVars, contVars, mergeVars, parseVars, runVars>>
    \/ \E t \in Threads : AddMarriage_FetchSources(t) /\ UNCHANGED <<sessVars, treeVars, mainVars, startVars, codecVars, contVars, mergeVars, parseVars, runVars>>
    \/ \E t \in Threads : AddMarriage_Check(t) /\ UNCHANGED <<sessVars, treeVars, mainVars, startVars, codecVars, contVars, mergeVars, parseVars, runVars>>
    \/ \E t \in Threads : AddMarriage_LoopEnd(t) /\ UNCHANGED <<sessVars, treeVars, mainVars, startVars, codecVars, contVars, mergeVars, parseVars, runVars>>
    \/ \E t \in Threads : AddMarriage_Link(t) /\ UNCHANGED <<sessVars, treeVars, mainVars, startVars, codecVars, contVars, mergeVars, parseVars, runVars>>

\* the session variables of a behaviour that looks at no get_url from inside
SessIdle ==
    /\ impl = "classes"
    /\ fssessionid = 1
    /\ valid = {1}
    /\ nextTok = 2
    /\ pc = [t \in Threads |-> "idle"]
    /\ hdr = [t \in Threads |-> 0]
    /\ reqTok = [t \in Threads |-> 0]
    /\ status = [t \in Threads |-> 0]
    /\ body = [t \in Threads |-> "-"]
    /\ ret = [t \in Threads |-> "-"]
    /\ frames = [t \in Threads |-> <<>>]
    /\ myTok = [t \in Threads |-> 0]
    /\ lastFail = [t \in Threads |-> "none"]
    /\ slept = [t \in Threads |-> FALSE]
    /\ sentInLogin = [t \in Threads |-> FALSE]


(***************************************************************************)
(* The Graph Store: class Tree, with Indi and Fam.                         *)
(***************************************************************************)
FIDS == {"A", "B", "C"}      \* person ids

\* what the server can hold: a family, an ancestry cycle, a three-generation
\* line, and a child recorded twice (once with the father missing) whose
\* parents are a couple recorded in both orders
Worlds ==
    { [par |-> {<<"B", "C", "A">>}, cpl |-> {<<"B", "C", "r1">>}],
      [par |-> {<<"B", None, "A">>, <<"A", None, "B">>}, cpl |-> {}],
      [par |-> {<<"B", None, "A">>, <<"C", None, "B">>}, cpl |-> {}],
      [par |-> {<<None, "C", "A">>, <<"B", "C", "A">>},
       cpl |-> {<<"B", "C", "r1">>, <<"C", "B", "r2">>}] }

\* the orders in which a loop can visit the elements of a set
Orders(S) ==
    {s \in [1..Cardinality(S) -> S] :
        \A i, j \in 1..Cardinality(S) : s[i] = s[j] => i = j}

\* Indi.__init__, with num = Indi.counter after the increment
NewIndi(n) ==
    [num |-> n, parents |-> {}, children |-> {}, spouses |-> {},
     famc_fid |-> {}, fams_fid |-> {}]

\* Fam.__init__
NewFam(n, husb, wife) ==
    [num |-> n,
     husb_fid |-> IF husb \in FIDS THEN husb ELSE None,
     wife_fid |-> IF wife \in FIDS THEN wife ELSE None,
     chil_fid |-> {}, fid |-> None]

\* the store the operators below transform
Store == [indi |-> indi, fam |-> fam, Fam_counter |-> Fam_counter]

\* add_fam without the membership test
AddFamAlways(st, father, mother) ==
    [st EXCEPT !.fam = (<<father, mother>> :> NewFam(st.Fam_counter + 1, father, mother)) @@ st.fam,
               !.Fam_counter = @ + 1]

\* Tree.add_fam
AddFam(st, father, mother) ==
    IF <<father, mother>> \notin DOMAIN st.fam
       THEN [st EXCEPT !.fam = (<<father, mother>> :> NewFam(st.Fam_counter + 1, father, mother)) @@ st.fam,
                       !.Fam_counter = @ + 1]
       ELSE st

\* add_trio without the calls of add_fams
AddFamsSkip(st, x, key) == st

\* Indi.add_fams on indi[x], when x is in the table
AddFams(st, x, key) ==
    IF x \in DOMAIN st.indi
       THEN [st EXCEPT !.indi[x].fams_fid = @ \cup {key}]
       ELSE st

\* Tree.add_trio
AddTrio(st, father, mother, child) ==
    LET key == <<father, mother>>
        s1 == AddFams(st, father, key)
        s2 == AddFams(s1, mother, key)
    IN  IF child \in DOMAIN s2.indi
           /\ (father \in DOMAIN s2.indi \/ mother \in DOMAIN s2.indi)
           THEN LET s3 == [s2 EXCEPT !.indi[child].famc_fid = @ \cup {key}]
                    s4 == AddFam(s3, father, mother)
                IN  [s4 EXCEPT !.fam[key].chil_fid = @ \cup {child}]
           ELSE s2

\* add_trio for every trio of a loop, in the order of the loop
RECURSIVE LinkTrios(_, _)
LinkTrios(st, trios) ==
    IF trios = <<>> THEN st
    ELSE LET r == Head(trios)
         IN  LinkTrios(AddTrio(st, r[1], r[2], r[3]), Tail(trios))

\* the test before add_trio, had it asked for one parent in the table only
ParentsKnownEither(I, father, mother) ==
    father \in DOMAIN I \/ mother \in DOMAIN I

\* the test add_parents and add_children put before add_trio
ParentsKnown(I, father, mother) ==
    \/ (mother \in DOMAIN I /\ father \in DOMAIN I)
    \/ (father = None /\ mother \in DOMAIN I)
    \/ (mother = None /\ father \in DOMAIN I)

\* add_datas: self.indi[person["id"]] = Indi(person["id"], self), person by person
RECURSIVE CreateIndis(_, _, _)
CreateIndis(I, n, persons) ==
    IF persons = <<>> THEN I
    ELSE CreateIndis((Head(persons) :> NewIndi(n + 1)) @@ I, n + 1, Tail(persons))

\* the loops over data["childAndParentsRelationships"] and data["relationships"]
RecordRelationships(I, R, C) ==
    [x \in DOMAIN I |->
        [I[x] EXCEPT
            !.parents = @ \cup {<<r[1], r[2]>> : r \in {q \in R : q[3] = x}},
            !.children = @ \cup {r \in R : r[1] = x \/ r[2] = x},
            !.spouses = @ \cup {c \in C : c[1] = x \/ c[2] = x}]]

\* the relationships the server sends along with the persons P
RelsOf(P) == {r \in world.par : r[1] \in P \/ r[2] \in P \/ r[3] \in P}
CouplesOf(P) == {c \in world.cpl : c[1] \in P \/ c[2] \in P}

\* new_fids without the test 'fid not in self.indi'
NewFidsUnfiltered(F) == {fid \in F : fid # None}

\* new_fids = [fid for fid in fids if fid and fid not in self.indi]
NewFids(F) == {fid \in F : fid # None /\ fid \notin DOMAIN indi}

\* the entry of a Tree method, up to the first get_url of add_indis
Begin(name, F) ==
    /\ call = "none"
    /\ call' = name
    /\ fids' = F
    /\ LET known == F \cap DOMAIN indi
           c == CASE name = "add_indis" -> {}
                  [] name = "add_parents" ->
                        UNION {{p[1], p[2]} : p \in UNION {indi[x].parents : x \in known}}
                  [] name = "add_children" -> UNION {indi[x].children : x \in known}
                  [] name = "add_spouses" -> UNION {indi[x].spouses : x \in known}
           wanted == CASE name = "add_indis" -> F
                       [] name = "add_parents" -> c
                       [] name = "add_children" -> UNION {{r[1], r[2], r[3]} : r \in c}
                       [] name = "add_spouses" -> UNION {{r[1], r[2]} : r \in c}
       IN  /\ coll' = c
           /\ new_fids' = NewFids(wanted)
    /\ reqs' = 0
    /\ result' = {}
    /\ raised' = FALSE
    /\ UNCHANGED <<world, indi, fam, Indi_counter, Fam_counter>>

\* one turn of 'while new_fids': the request for new_fids[:MAX_PERSONS], the
\* persons created, the relationships recorded
AddIndis_Batch ==
    /\ call # "none"
    /\ new_fids # {}
    /\ \E batch \in SUBSET new_fids :
          /\ batch # {}
          /\ Cardinality(batch) = Cardinality(new_fids) \/ Cardinality(batch) = MAX_PERSONS
          /\ Cardinality(batch) <= MAX_PERSONS
          /\ new_fids' = new_fids \ batch
    /\ reqs' = reqs + 1
    /\ \/ UNCHANGED <<indi, Indi_counter>>            \* get_url returned None
       \/ \E P \in SUBSET FIDS : \E persons \in Orders(P) :
             /\ Indi_counter + Len(persons) <= MaxIndi
             /\ indi' = RecordRelationships(CreateIndis(indi, Indi_counter, persons),
                                            RelsOf(P), CouplesOf(P))
             /\ Indi_counter' = Indi_counter + Len(persons)
    /\ UNCHANGED <<world, fam, Fam_counter, call, fids, coll, result, raised>>

\* a method returns: its locals are gone
Returns(st, value) ==
    /\ indi' = st.indi
    /\ fam' = st.fam
    /\ Fam_counter' = st.Fam_counter
    /\ result' = value
    /\ call' = "none"
    /\ fids' = {}
    /\ coll' = {}
    /\ reqs' = 0
    /\ UNCHANGED <<world, Indi_counter, new_fids>>

\* add_indis: 'while new_fids' is over
AddIndis_Return ==
    /\ call = "add_indis" /\ new_fids = {}
    /\ Returns(Store, {})
    /\ UNCHANGED raised

\* the return value of add_parents without the filter
FilterNothing(S) == S

\* set(filter(None, parents))
FilterNone(S) == {p \in S : p # None}

\* add_parents after add_indis: the linking loop and the return value
AddParents_Return ==
    /\ call = "add_parents" /\ new_fids = {}
    /\ LET trios == {<<p[1], p[2], x>> :
                        x \in fids \cap DOMAIN indi, p \in UNION {indi[y].parents : y \in fids \cap DOMAIN indi}}
           link == {r \in trios : <<r[1], r[2]>> \in indi[r[3]].parents
                                   /\ ParentsKnown(indi, r[1], r[2])}
       IN  \E order \in Orders(link) :
              Returns(LinkTrios(Store, order), FilterNone(coll))
    /\ UNCHANGED raised

\* add_children after add_indis: the linking loop and the return value
AddChildren_Return ==
    /\ call = "add_children" /\ new_fids = {}
    /\ LET link == {r \in coll : r[3] \in DOMAIN indi /\ ParentsKnown(indi, r[1], r[2])}
       IN  \E order \in Orders(link) :
              Returns(LinkTrios(Store, order), {r[3] : r \in link})
    /\ UNCHANGED raised

\* the loop of add_spouses that makes the couples' families
RECURSIVE LinkCouples(_, _)
LinkCouples(st, rels) ==
    IF rels = <<>> THEN st
    ELSE LET r == Head(rels)
             key == <<r[1], r[2]>>
         IN  LinkCouples(AddFam(AddFams(AddFams(st, r[1], key), r[2], key), r[1], r[2]),
                         Tail(rels))

\* Fam.add_marriage for every rel whose family exists, in the order the tasks
\* get to 'if not self.fid: self.fid = fid'
RECURSIVE Marry(_, _)
Marry(F, rels) ==
    IF rels = <<>> THEN F
    ELSE LET r == Head(rels)
             key == <<r[1], r[2]>>
         IN  Marry(IF key \in DOMAIN F /\ F[key].fid = None
                      THEN [F EXCEPT ![key].fid = r[3]] ELSE F,
                   Tail(rels))

\* add_spouses after add_indis: the families, then the add_marriage tasks; a
\* task that fetches can end with the TypeError of add_marriage
AddSpouses_Return ==
    /\ call = "add_spouses" /\ new_fids = {}
    /\ LET couples == {r \in coll : r[1] \in DOMAIN indi /\ r[2] \in DOMAIN indi}
       IN  \E order \in Orders(couples) : \E tasks \in Orders(coll) :
              LET st == LinkCouples(Store, order)
                  fetching == \E r \in coll : <<r[1], r[2]>> \in DOMAIN st.fam
                                              /\ st.fam[<<r[1], r[2]>>].fid = None
              IN  /\ Returns([st EXCEPT !.fam = Marry(st.fam, tasks)], {})
                  /\ \E error \in BOOLEAN :
                        /\ error => fetching
                        /\ raised' = error

TreeInit ==
    /\ world \in Worlds
    /\ indi = <<>>
    /\ fam = <<>>
    /\ Indi_counter = 0
    /\ Fam_counter = 0
    /\ call = "none"
    /\ fids = {}
    /\ new_fids = {}
    /\ coll = {}
    /\ result = {}
    /\ reqs = 0
    /\ raised = FALSE

\* main does not run
MainIdle ==
    /\ mpc = "none"
    /\ seed = {}
    /\ ascend = 0
    /\ descend = 0
    /\ marriage = FALSE
    /\ mtodo = {}
    /\ done = {}
    /\ gen = 0
    /\ frontiers = <<>>

\* the Tree does not run
TreeIdle ==
    /\ world = [par |-> {}, cpl |-> {}]
    /\ indi = <<>>
    /\ fam = <<>>
    /\ Indi_counter = 0
    /\ Fam_counter = 0
    /\ call = "none"
    /\ fids = {}
    /\ new_fids = {}
    /\ coll = {}
    /\ result = {}
    /\ reqs = 0
    /\ raised = FALSE

\* a caller of the Graph Store: any method, any set of ids
Methods == {"add_indis", "add_parents", "add_children", "add_spouses"}

ApiCall ==
    \E name \in Methods : \E F \in SUBSET (FIDS \cup {None}) : Begin(name, F)

TreeNext ==
    \/ ApiCall /\ UNCHANGED <<sessVars, taskVars, mainVars, startVars, codecVars, contVars, mergeVars, parseVars, runVars>>
    \/ AddIndis_Batch /\ UNCHANGED <<sessVars, taskVars, mainVars, startVars, codecVars, contVars, mergeVars, parseVars, runVars>>
    \/ AddIndis_Return /\ UNCHANGED <<sessVars, taskVars, mainVars, startVars, codecVars, contVars, mergeVars, parseVars, runVars>>
    \/ AddParents_Return /\ UNCHANGED <<sessVars, taskVars, mainVars, startVars, codecVars, contVars, mergeVars, parseVars, runVars>>
    \/ AddChildren_Return /\ UNCHANGED <<sessVars, taskVars, mainVars, startVars, codecVars, contVars, mergeVars, parseVars, runVars>>
    \/ AddSpouses_Return /\ UNCHANGED <<sessVars, taskVars, mainVars, startVars, codecVars, contVars, mergeVars, parseVars, runVars>>

(***************************************************************************)
(* The start of a run: Session.__init__ calls login(); the caller tests    *)
(* Session.logged before it builds the Tree and acquires anything.         *)
(***************************************************************************)
Progs == {"main", "session"}

\* main without 'if not fs.logged: sys.exit(2)'
AfterLoginNoTest(l) == "tree"

\* if not fs.logged: sys.exit(2) / Download.login: if not self.fs.logged: ... return
AfterLogin(l) == IF ~l THEN "exited" ELSE "tree"

StartInit ==
    /\ prog \in Progs
    /\ password_ok \in BOOLEAN
    /\ get_ordinances \in BOOLEAN
    /\ lpc = "page"
    /\ logged = FALSE
    /\ rejected = FALSE
    /\ lslept = FALSE
    /\ tries = 0
    /\ acq = 0
    /\ acqKind = "none"

\* no run starts
StartIdle ==
    /\ prog = "main"
    /\ password_ok = TRUE
    /\ get_ordinances = FALSE
    /\ lpc = "none"
    /\ logged = FALSE
    /\ rejected = FALSE
    /\ lslept = FALSE
    /\ tries = 0
    /\ acq = 0
    /\ acqKind = "none"

\* the requests of login() that come before the credentials are posted
Login_Page ==
    /\ lpc = "page"
    /\ lpc' = "post"
    /\ UNCHANGED <<prog, password_ok, get_ordinances, logged, rejected, lslept, tries, acq, acqKind>>

\* a request of login() fails: ReadTimeout -> continue; ConnectionError,
\* HTTPError, KeyError, ValueError -> time.sleep(self.timeout); continue
Login_Fails ==
    /\ lpc \in {"page", "post", "code", "token", "cookie"}
    /\ tries < MaxTries
    /\ tries' = tries + 1
    /\ \/ lpc' = "page" /\ lslept' = FALSE
       \/ lpc' = "sleep" /\ UNCHANGED lslept
    /\ UNCHANGED <<prog, password_ok, get_ordinances, logged, rejected, acq, acqKind>>

\* time.sleep(self.timeout) is over
Login_Wake ==
    /\ lpc = "sleep"
    /\ lpc' = "page"
    /\ lslept' = TRUE
    /\ UNCHANGED <<prog, password_ok, get_ordinances, logged, rejected, tries, acq, acqKind>>

\* the credentials are posted and answered
Login_Post ==
    /\ lpc = "post"
    /\ IF prog = "main"
          THEN IF ~password_ok
                  THEN \* "The username or password was incorrect": return False
                       /\ rejected' = TRUE
                       /\ lpc' = "returned"
                       /\ UNCHANGED <<tries, logged>>
                  ELSE \/ /\ tries < MaxTries     \* "Invalid Oauth2 Request"
                          /\ tries' = tries + 1
                          /\ lpc' = "sleep"
                          /\ UNCHANGED <<rejected, logged>>
                       \/ /\ lpc' = "cookie"
                          /\ UNCHANGED <<rejected, tries, logged>>
          ELSE IF ~password_ok
                  THEN /\ rejected' = TRUE
                       /\ UNCHANGED logged
                       /\ \/ /\ tries < MaxTries   \* res.raise_for_status() raises
                             /\ tries' = tries + 1
                             /\ lpc' = "sleep"
                          \/ /\ lpc' = "code"      \* a page without an error status
                             /\ UNCHANGED tries
                  ELSE /\ lpc' = "code"
                       /\ UNCHANGED <<rejected, tries, logged>>
    /\ UNCHANGED <<prog, password_ok, get_ordinances, lslept, acq, acqKind>>

\* session.py: the authorization code is read from the redirect; without a
\* code: webbrowser.open(response.url); sys.exit(2)
Login_Code ==
    /\ lpc = "code"
    /\ lpc' = IF password_ok THEN "token" ELSE "exited"
    /\ UNCHANGED <<prog, password_ok, get_ordinances, logged, rejected, lslept, tries, acq, acqKind>>

\* session.py: the code is exchanged for the access token; self.logged holds
\* from here on; 'if self.logged: self.set_current(); break'
Login_Token ==
    /\ lpc = "token"
    /\ logged' = TRUE
    /\ lpc' = "returned"
    /\ UNCHANGED <<prog, password_ok, get_ordinances, rejected, lslept, tries, acq, acqKind>>

\* classes.py, getmyancestors.py: self.fssessionid = r.cookies["fssessionid"];
\* self.set_current(); return True
Login_Cookie ==
    /\ lpc = "cookie"
    /\ logged' = TRUE
    /\ lpc' = "returned"
    /\ UNCHANGED <<prog, password_ok, get_ordinances, rejected, lslept, tries, acq, acqKind>>

\* Session.__init__ is back in its caller
Start_AfterLogin ==
    /\ lpc = "returned"
    /\ lpc' = AfterLogin(logged)
    /\ UNCHANGED <<prog, password_ok, get_ordinances, logged, rejected, lslept, tries, acq, acqKind>>

\* tree = Tree(fs); if args.get_ordinances: the test of the LDS account, which
\* ends the run with sys.exit(2) when the status is not "OK"
Start_Tree ==
    /\ lpc = "tree"
    /\ \/ lpc' = "acquiring"
       \/ get_ordinances /\ lpc' = "exited"
    /\ UNCHANGED <<prog, password_ok, get_ordinances, logged, rejected, lslept, tries, acq, acqKind>>

\* a request of the acquisition: a person batch of add_indis or a detail fetch
Start_Acquire ==
    /\ lpc = "acquiring"
    /\ acq < MaxAcq
    /\ acq' = acq + 1
    /\ acqKind' \in {"batch", "detail"}
    /\ UNCHANGED <<prog, password_ok, get_ordinances, lpc, logged, rejected, lslept, tries>>

\* the finally block of main: the file is printed
Start_Finally ==
    /\ lpc = "acquiring"
    /\ lpc' = "printed"
    /\ UNCHANGED <<prog, password_ok, get_ordinances, logged, rejected, lslept, tries, acq, acqKind>>

StartNext ==
    \/ Login_Page /\ UNCHANGED <<sessVars, taskVars, treeVars, mainVars, codecVars, contVars, mergeVars, parseVars, runVars>>
    \/ Login_Fails /\ UNCHANGED <<sessVars, taskVars, treeVars, mainVars, codecVars, contVars, mergeVars, parseVars, runVars>>
    \/ Login_Wake /\ UNCHANGED <<sessVars, taskVars, treeVars, mainVars, codecVars, contVars, mergeVars, parseVars, runVars>>
    \/ Login_Post /\ UNCHANGED <<sessVars, taskVars, treeVars, mainVars, codecVars, contVars, mergeVars, parseVars, runVars>>
    \/ Login_Code /\ UNCHANGED <<sessVars, taskVars, treeVars, mainVars, codecVars, contVars, mergeVars, parseVars, runVars>>
    \/ Login_Token /\ UNCHANGED <<sessVars, taskVars, treeVars, mainVars, codecVars, contVars, mergeVars, parseVars, runVars>>
    \/ Login_Cookie /\ UNCHANGED <<sessVars, taskVars, treeVars, mainVars, codecVars, contVars, mergeVars, parseVars, runVars>>
    \/ Start_AfterLogin /\ UNCHANGED <<sessVars, taskVars, treeVars, mainVars, codecVars, contVars, mergeVars, parseVars, runVars>>
    \/ Start_Tree /\ UNCHANGED <<sessVars, taskVars, treeVars, mainVars, codecVars, contVars, mergeVars, parseVars, runVars>>
    \/ Start_Acquire /\ UNCHANGED <<sessVars, taskVars, treeVars, mainVars, codecVars, contVars, mergeVars, parseVars, runVars>>
    \/ Start_Finally /\ UNCHANGED <<sessVars, taskVars, treeVars, mainVars, codecVars, contVars, mergeVars, parseVars, runVars>>


(***************************************************************************)
(* The GEDCOM codec: Indi.print with Name.print, Fact.print and            *)
(* Ordinance.print, and the reader Gedcom.  A text is a sequence of        *)
(* tokens: words, " " and "/"; the empty sequence is None or "".           *)
(***************************************************************************)
NoText == <<>>

Line(l, t, d) == [level |-> l, tag |-> t, data |-> d]

\* an Ordinance that is not there
NoOrdinance == [present |-> FALSE, date |-> NoText, temple_code |-> NoText, status |-> NoText]

\* a Name that is not there
NoName == [present |-> FALSE, given |-> NoText, surname |-> NoText, suffix |-> NoText]

\* Indi.__init__
EmptyIndi ==
    [fid |-> NoText, name |-> NoName, gender |-> NoText, facts |-> {},
     baptism |-> NoOrdinance, confirmation |-> NoOrdinance, initiatory |-> NoOrdinance,
     endowment |-> NoOrdinance, sealing_child |-> NoOrdinance]

\* ORDINANCES_STATUS, one entry of it
ORDINANCES_STATUS == [Completed |-> "COMPLETED"]

\* ORDINANCES, the table the reader uses for STAT: ORDINANCES_STATUS reversed
ORDINANCES == [COMPLETED |-> "Completed"]

\* FACT_TAGS, one entry of it
FACT_TAGS == [Birth |-> "BIRT"]

\* FACT_TYPES, the table the reader uses for the tag of a fact: FACT_TAGS reversed
FACT_TYPES == [BIRT |-> "Birth"]

\* Name.print
NamePrint(n) ==
    <<Line(1, "NAME", n.given \o <<" ", "/">> \o n.surname \o <<"/">>
                      \o (IF n.suffix # NoText THEN <<" ">> \o n.suffix ELSE <<>>))>>

\* Fact.print for a type of FACT_TAGS
FactPrint(f) ==
    <<Line(1, FACT_TAGS[f.type], f.value)>>
    \o (IF f.date # NoText THEN <<Line(2, "DATE", f.date)>> ELSE <<>>)

\* Ordinance.print
OrdinancePrint(o) ==
    (IF o.date # NoText THEN <<Line(2, "DATE", o.date)>> ELSE <<>>)
    \o (IF o.temple_code # NoText THEN <<Line(2, "TEMP", o.temple_code)>> ELSE <<>>)
    \o (IF o.status # NoText /\ o.status[1] \in DOMAIN ORDINANCES_STATUS
           THEN <<Line(2, "STAT", <<ORDINANCES_STATUS[o.status[1]]>>)>> ELSE <<>>)

\* 'for o in self.facts: o.print(file)' in one of the orders of the set
RECURSIVE FactsPrint(_)
FactsPrint(F) ==
    IF F = {} THEN <<>>
    ELSE LET f == CHOOSE x \in F : TRUE IN FactPrint(f) \o FactsPrint(F \ {f})

\* Indi.print
IndiPrint(x) ==
    <<[level |-> 0, tag |-> "INDI", data |-> NoText]>>
    \o (IF x.name.present THEN NamePrint(x.name) ELSE <<>>)
    \o (IF x.gender # NoText THEN <<Line(1, "SEX", x.gender)>> ELSE <<>>)
    \o FactsPrint(x.facts)
    \o (IF x.baptism.present THEN <<Line(1, "BAPL", NoText)>> \o OrdinancePrint(x.baptism) ELSE <<>>)
    \o (IF x.confirmation.present
           THEN <<Line(1, "CONL", NoText)>> \o OrdinancePrint(x.confirmation) ELSE <<>>)
    \o (IF x.initiatory.present
           THEN <<Line(1, "WAC", NoText)>> \o OrdinancePrint(x.initiatory) ELSE <<>>)
    \o (IF x.endowment.present
           THEN <<Line(1, "ENDL", NoText)>> \o OrdinancePrint(x.endowment) ELSE <<>>)
    \o (IF x.sealing_child.present
           THEN <<Line(1, "SLGC", NoText)>> \o OrdinancePrint(x.sealing_child) ELSE <<>>)
    \o <<Line(1, "_FSFTID", x.fid)>>

\* str.strip() on a text: from the first to the last character that is no space
Strip(t) ==
    LET S == {i \in 1..Len(t) : t[i] # " "}
    IN  IF S = {} THEN <<>>
        ELSE SubSeq(t, CHOOSE i \in S : \A j \in S : i <= j,
                       CHOOSE i \in S : \A j \in S : i >= j)

\* the characters lo..hi of t without the spaces that a space follows
RECURSIVE SqueezeRange(_, _, _)
SqueezeRange(t, lo, hi) ==
    IF lo > hi THEN <<>>
    ELSE IF lo = hi
            THEN (IF t[lo] = " " /\ lo < Len(t) /\ t[lo + 1] = " " THEN <<>> ELSE <<t[lo]>>)
    ELSE LET mid == (lo + hi) \div 2
         IN  SqueezeRange(t, lo, mid) \o SqueezeRange(t, mid + 1, hi)

\* Gedcom.__get_line: readline().split(), then " ".join(words[...])
Squeeze(t) == SqueezeRange(t, 1, Len(t))

GetLine(f, i) == [f[i] EXCEPT !.data = Strip(Squeeze(@))]

\* str.split("/"): the parts of a text
RECURSIVE Split(_, _)
Split(t, part) ==
    IF t = <<>> THEN <<part>>
    ELSE IF Head(t) = "/" THEN <<part>> \o Split(Tail(t), <<>>)
    ELSE Split(Tail(t), Append(part, Head(t)))

\* Gedcom.__get_text: the data of line i, with the CONT and CONC lines after it
RECURSIVE FoldText(_, _, _)
FoldText(f, j, text) ==
    IF j > Len(f) THEN [val |-> text, pos |-> j]
    ELSE LET l == GetLine(f, j)
         IN  IF l.tag = "CONT" THEN FoldText(f, j + 1, text \o <<"NL">> \o l.data)
             ELSE IF l.tag = "CONC" THEN FoldText(f, j + 1, text \o l.data)
             ELSE [val |-> text, pos |-> j]

GetText(f, i) == FoldText(f, i + 1, GetLine(f, i).data)

\* the lines after position i that a loop 'while self.__get_line() and
\* self.level > lvl' goes through without a branch for their tag
RECURSIVE SkipTo(_, _, _)
SkipTo(f, i, lvl) ==
    IF i > Len(f) \/ f[i].level <= lvl THEN i ELSE SkipTo(f, i + 1, lvl)

\* Gedcom.__get_ordinance, from the line after the BAPL/CONL/ENDL/SLGC line
RECURSIVE GetOrdinance(_, _, _)
GetOrdinance(f, i, o) ==
    IF i > Len(f) \/ f[i].level <= 1 THEN [val |-> o, pos |-> i]
    ELSE LET l == GetLine(f, i)
         IN  CASE l.tag = "DATE" ->
                    LET t == GetText(f, i)
                    IN  GetOrdinance(f, t.pos, [o EXCEPT !.date = t.val])
               [] l.tag = "TEMP" ->
                    GetOrdinance(f, i + 1, [o EXCEPT !.temple_code = l.data])
               [] l.tag = "STAT" ->
                    GetOrdinance(f, i + 1, [o EXCEPT !.status = <<ORDINANCES[l.data[1]]>>])
               [] OTHER -> GetOrdinance(f, i + 1, o)

\* Gedcom.__get_fact, from the line after the line of the fact
RECURSIVE GetFactLines(_, _, _)
GetFactLines(f, i, fact) ==
    IF i > Len(f) \/ f[i].level <= 1 THEN [val |-> fact, pos |-> i]
    ELSE LET l == GetLine(f, i)
         IN  IF l.tag = "DATE"
                THEN LET t == GetText(f, i)
                     IN  GetFactLines(f, t.pos, [fact EXCEPT !.date = t.val])
                ELSE GetFactLines(f, i + 1, fact)

\* Gedcom.__get_name for the line i
GetName(f, i) ==
    LET t == GetText(f, i)
        parts == Split(t.val, <<>>)
    IN  [val |-> [present |-> TRUE, given |-> Strip(parts[1]), surname |-> Strip(parts[2]),
                  suffix |-> parts[3]],
         pos |-> SkipTo(f, t.pos, 1)]

\* Gedcom.__get_indi, from the line after the INDI line
RECURSIVE GetIndi(_, _, _)
GetIndi(f, i, x) ==
    IF i > Len(f) \/ f[i].level <= 0 THEN x
    ELSE LET l == GetLine(f, i)
         IN  CASE l.tag = "NAME" ->
                    LET n == GetName(f, i)
                    IN  GetIndi(f, n.pos, IF x.name.present THEN x ELSE [x EXCEPT !.name = n.val])
               [] l.tag = "SEX" -> GetIndi(f, i + 1, [x EXCEPT !.gender = l.data])
               [] l.tag \in DOMAIN FACT_TYPES ->
                    LET r == GetFactLines(f, i + 1,
                                 [type |-> FACT_TYPES[l.tag], value |-> l.data, date |-> NoText])
                    IN  GetIndi(f, r.pos, [x EXCEPT !.facts = @ \cup {r.val}])
               [] l.tag = "BAPL" ->
                    LET r == GetOrdinance(f, i + 1, [NoOrdinance EXCEPT !.present = TRUE])
                    IN  GetIndi(f, r.pos, [x EXCEPT !.baptism = r.val])
               [] l.tag = "CONL" ->
                    LET r == GetOrdinance(f, i + 1, [NoOrdinance EXCEPT !.present = TRUE])
                    IN  GetIndi(f, r.pos, [x EXCEPT !.confirmation = r.val])
               [] l.tag = "ENDL" ->
                    LET r == GetOrdinance(f, i + 1, [NoOrdinance EXCEPT !.present = TRUE])
                    IN  GetIndi(f, r.pos, [x EXCEPT !.endowment = r.val])
               [] l.tag = "SLGC" ->
                    LET r == GetOrdinance(f, i + 1, [NoOrdinance EXCEPT !.present = TRUE])
                    IN  GetIndi(f, r.pos, [x EXCEPT !.sealing_child = r.val])
               [] l.tag = "_FSFTID" -> GetIndi(f, i + 1, [x EXCEPT !.fid = l.data])
               [] OTHER -> GetIndi(f, i + 1, x)

\* the individuals that are printed
Names ==
    {NoName}
    \cup {[present |-> TRUE, given |-> g, surname |-> <<"Smith">>, suffix |-> sfx] :
             g \in {<<"John">>, <<"John", " ", "Paul">>}, sfx \in {NoText, <<"Jr">>}}

Ordinances ==
    {NoOrdinance,
     [present |-> TRUE, date |-> <<"1", " ", "JAN", " ", "1990">>, temple_code |-> <<"SLAKE">>,
      status |-> <<"Completed">>]}

Facts == {[type |-> "Birth", value |-> NoText, date |-> <<"1900">>]}

CodecInit ==
    /\ G \in [fid : {<<"KWZ1-ABC">>}, name : Names, gender : {NoText, <<"M">>},
              facts : SUBSET Facts, baptism : Ordinances, confirmation : {NoOrdinance},
              initiatory : Ordinances, endowment : Ordinances, sealing_child : {NoOrdinance}]
    /\ file = <<>>
    /\ parsed = EmptyIndi
    /\ cpc = "built"

\* nothing is printed
CodecIdle ==
    /\ G = EmptyIndi
    /\ file = <<>>
    /\ parsed = EmptyIndi
    /\ cpc = "none"

\* Tree.print(file)
Tree_Print ==
    /\ cpc = "built"
    /\ file' = IndiPrint(G) \o <<[level |-> 0, tag |-> "TRLR", data |-> NoText]>>
    /\ cpc' = "printed"
    /\ UNCHANGED <<G, parsed>>

\* Gedcom(file, tree)
Gedcom_Parse ==
    /\ cpc = "printed"
    /\ parsed' = GetIndi(file, 2, EmptyIndi)
    /\ cpc' = "parsed"
    /\ UNCHANGED <<G, file>>

CodecNext ==
    \/ Tree_Print /\ UNCHANGED <<sessVars, taskVars, treeVars, mainVars, startVars, contVars, mergeVars, parseVars, runVars>>
    \/ Gedcom_Parse /\ UNCHANGED <<sessVars, taskVars, treeVars, mainVars, startVars, contVars, mergeVars, parseVars, runVars>>


(***************************************************************************)
(* cont(string): the CONT and CONC lines of a value.  A string is a        *)
(* sequence of characters: "NL" is the newline, " " the space, "e2" a      *)
(* character of two UTF-8 bytes, every other one has one byte.             *)
(***************************************************************************)
max_len_first == 255
max_len_next == 248

Min(a, b) == IF a < b THEN a ELSE b

\* len(s.encode("utf-8"))
Bytes(c) == Len(c) + Cardinality({i \in 1..Len(c) : c[i] = "e2"})

\* string.splitlines(): a newline at the end opens no line
RECURSIVE SplitLines(_)
SplitLines(c) ==
    LET N == {i \in 1..Len(c) : c[i] = "NL"}
    IN  IF c = <<>> THEN <<>>
        ELSE IF N = {} THEN <<c>>
        ELSE LET p == CHOOSE i \in N : \A j \in N : i <= j
             IN  <<SubSeq(c, 1, p - 1)>> \o SplitLines(SubSeq(c, p + 1, Len(c)))

\* the first value of index, were it the budget alone
FirstIndexBudget(c, max) == max

\* index = min(max_len, len(c_line) - 2)
FirstIndex(c, max) == Min(max, Len(c) - 2)

\* re.search(r"[ \t\v]", c_line[index - 1 : index + 1])
SpaceAtCut(c, index) ==
    \E k \in {index, index + 1} : k >= 1 /\ k <= Len(c) /\ c[k] = " "

\* the cut without the inner while
CutIndexChars(c, index, max) == index

\* the inner while: index -= 1 as long as the prefix is over the budget or
\* the cut touches a whitespace, down to index 1
RECURSIVE CutIndex(_, _, _)
CutIndex(c, index, max) ==
    IF (Bytes(SubSeq(c, 1, index)) > max \/ SpaceAtCut(c, index)) /\ index > 1
       THEN CutIndex(c, index - 1, max)
       ELSE index

\* one cut, and the rest of the line not kept
ToConcOnce(c, max) ==
    IF Bytes(c) > max THEN <<SubSeq(c, 1, FirstIndex(c, max))>> ELSE <<c>>

\* the outer while of one line: to_conc
RECURSIVE ToConc(_, _)
ToConc(c, max) ==
    IF Bytes(c) > max
       THEN LET index == CutIndex(c, FirstIndex(c, max), max)
            IN  <<SubSeq(c, 1, index)>> \o ToConc(SubSeq(c, index + 1, Len(c)), max_len_next)
       ELSE <<c>>

\* the physical lines of one line of the value: the first segment under
\* 'tag', the others under CONC
ConcLines(segs, level, tag) ==
    [i \in 1..Len(segs) |->
        IF i = 1 THEN Line(level, tag, segs[1]) ELSE Line(level, "CONC", segs[i])]

\* the for loop over the lines, the first with max_len = 255
RECURSIVE ContLines(_, _, _)
ContLines(ls, level, first) ==
    IF ls = <<>> THEN <<>>
    ELSE ConcLines(ToConc(Head(ls), IF first THEN max_len_first ELSE max_len_next),
                   level, IF first THEN "" ELSE "CONT")
         \o ContLines(Tail(ls), level, FALSE)

\* cont(string), level = int(string[:1]) + 1 = 2
Cont(c) == ContLines(SplitLines(c), 2, TRUE)

\* "1 T ", what comes before the value in the argument of cont
Prefix == <<"1", " ", "T", " ">>

\* the value that was given to cont
Value(c) == SubSeq(c, Len(Prefix) + 1, Len(c))

\* the lines of cont as Gedcom.__get_line gets them: the first one has its
\* level and tag split off
AsRead(o) ==
    [i \in 1..Len(o) |->
        IF i = 1 THEN Line(1, "T", SubSeq(o[1].data, Len(Prefix) + 1, Len(o[1].data)))
        ELSE o[i]]

\* the strings given to cont: n characters, spaces at W, a newline at nl
Str(n, W, nl) ==
    Prefix \o [i \in 1..n - Len(Prefix) |->
                  LET k == i + Len(Prefix)
                  IN  IF k = nl THEN "NL" ELSE IF k \in W THEN " "
                      ELSE IF k = nl + 2 /\ nl = 9 THEN "e2" ELSE "a"]

StrLens == {8, 12, 256, 257, 258, 510}

StrSpaces == {{}, {7}, {7, 8}, {254}, {255}, {256}, {10}}

StrNewlines == {0, 6, 9, 257}

\* values with characters of two bytes, long lines after a newline, and an
\* empty line
StrMore ==
    { Prefix \o [i \in 1..300 |-> "e2"] \o <<"NL">> \o [i \in 1..250 |-> "a"],
      Prefix \o <<"a">> \o [i \in 1..126 |-> "e2"],
      Prefix \o [i \in 1..260 |-> "a"] \o <<"NL">> \o [i \in 1..130 |-> "e2"],
      Prefix \o <<"a", "NL", "NL", "a">>,
      Prefix \o <<"a", "NL", "NL">> \o [i \in 1..249 |-> "a"] }

ContInit ==
    /\ string \in {Str(n, W, nl) : n \in StrLens, W \in StrSpaces, nl \in StrNewlines}
                      \cup StrMore
    /\ out = <<>>
    /\ folded = <<>>
    /\ wpc = "given"

\* nothing is given to cont
ContIdle ==
    /\ string = <<>>
    /\ out = <<>>
    /\ folded = <<>>
    /\ wpc = "none"

\* file.write(cont(string))
Cont_Write ==
    /\ wpc = "given"
    /\ out' = Cont(string)
    /\ wpc' = "written"
    /\ UNCHANGED <<string, folded>>

\* Gedcom.__get_text on the first of the lines
Gedcom_GetText ==
    /\ wpc = "written"
    /\ folded' = GetText(AsRead(out), 1).val
    /\ wpc' = "read"
    /\ UNCHANGED <<string, out>>

ContNext ==
    \/ Cont_Write /\ UNCHANGED <<sessVars, taskVars, treeVars, mainVars, startVars, codecVars, mergeVars, parseVars, runVars>>
    \/ Gedcom_GetText /\ UNCHANGED <<sessVars, taskVars, treeVars, mainVars, startVars, codecVars, mergeVars, parseVars, runVars>>


(***************************************************************************)
(* Merge.save: the files are read one after the other into one Tree, the   *)
(* notes are numbered by text, the Tree is printed.  One individual X and  *)
(* one family K can be in each file.                                       *)
(***************************************************************************)
Texts == {"a", "b"}

\* the order of str on the texts
TextOrd(t) == CASE t = "" -> 0 [] t = "a" -> 1 [] t = "b" -> 2

\* a sealing to parents: not there, without FAMC line, or with the FAMC line
\* of the family @F1@ or @F2@ of its file
Sealings == {"none", "unresolved", "resolved1", "resolved2"}

\* int(self.data[2 : len(self.data) - 1]) of the FAMC line of a sealing
SlgcNum(sc) == CASE sc = "resolved1" -> 1 [] sc = "resolved2" -> 2 [] OTHER -> 0

\* no link to a source
NoSour == [num |-> 0, fid |-> "-"]

\* sealing_child and sealing_child.famc
Resolved(sc) == sc \in {"resolved1", "resolved2"}

NoGedIndi ==
    [present |-> FALSE, name |-> "-", famc_fid |-> {}, sealing_child |-> "none", note |-> "-",
     sour |-> NoSour]

NoGedFam == [present |-> FALSE, num |-> 0, chil_fid |-> {}, fid |-> "None", note |-> "-"]

\* what a file can hold of X: one of two names, each with its parents' family,
\* and a sealing or a note
GedIndis ==
    {NoGedIndi}
    \cup {[present |-> TRUE, name |-> v[1], famc_fid |-> {v[2]}, sealing_child |-> sc, note |-> "-",
            sour |-> NoSour] :
             v \in {<<"n1", "k1">>, <<"n2", "k2">>}, sc \in Sealings}
    \cup {[present |-> TRUE, name |-> v[1], famc_fid |-> {v[2]}, sealing_child |-> "none",
            note |-> t, sour |-> NoSour] :
             v \in {<<"n1", "k1">>, <<"n2", "k2">>}, t \in Texts}
    \* with a link '1 SOUR @S<num>@' to the source that has 'REFN <fid>' in the file
    \cup {[present |-> TRUE, name |-> "n1", famc_fid |-> {"k1"}, sealing_child |-> "none",
            note |-> "-", sour |-> [num |-> v[1], fid |-> v[2]]] :
             v \in {<<1, "s1">>, <<2, "s1">>, <<1, "s2">>}}

\* what a file can hold of K: one of two children, the second file with the
\* id of the couple relationship; K is @F1@, or @F2@ in a file that has
\* another family L as @F1@
GedFams ==
    {NoGedFam}
    \cup {[present |-> TRUE, num |-> 1, chil_fid |-> {v[1]}, fid |-> v[2], note |-> t] :
             v \in {<<"c1", "None">>, <<"c2", "r1">>}, t \in {"-", "a"}}
    \cup {[present |-> TRUE, num |-> 2, chil_fid |-> {"c1"}, fid |-> "None", note |-> "-"]}

\* ordinance.famc = self.fam[num]: the Fam of the sealing is the K of the file
SealedToK(g) ==
    g.fam.present /\ Resolved(g.indi.sealing_child)
    /\ SlgcNum(g.indi.sealing_child) = g.fam.num

\* Indi(tree=tree, num=indi_counter) before the fields are copied
NoIndi ==
    [present |-> FALSE, num |-> 0, name |-> "-", famc_fid |-> {}, sealing_child |-> "none",
     sealing_K |-> FALSE, notes |-> {}, sour |-> NoSour]

\* Fam(husb, wife, tree, fam_counter) before the fields are copied
NoFam == [present |-> FALSE, num |-> 0, chil_fid |-> {}, fid |-> "None", notes |-> {}]

\* sealing_child taken from the file whatever the Tree has
MergeSealingLast(old, new) == new

\* sealing_child kept when it is there with its famc, else taken from the file
MergeSealing(old, new) == IF ~Resolved(old) THEN new ELSE old

\* the Notes that Gedcom made for the file (Note(tree=self.tree, num=num)
\* appends them to tree.notes): the one X links, then the one K links
NewNotes(g) ==
    (IF g.indi.note # "-" THEN <<[text |-> g.indi.note, num |-> 1]>> ELSE <<>>)
    \o (IF g.fam.note # "-" THEN <<[text |-> g.fam.note, num |-> 2]>> ELSE <<>>)

\* 'add informations about individuals' for X
\* (sealing_K: the Fam object sealing_child.famc is the K of its file)
MergeIndi(x, g, n, at) ==
    IF ~g.indi.present THEN x
    ELSE [present |-> TRUE,
          num |-> IF x.present THEN x.num ELSE n + 1,
          name |-> g.indi.name,
          famc_fid |-> x.famc_fid \cup g.indi.famc_fid,
          sealing_child |-> MergeSealing(x.sealing_child, g.indi.sealing_child),
          sealing_K |-> IF Resolved(x.sealing_child) THEN x.sealing_K ELSE SealedToK(g),
          notes |-> IF g.indi.note # "-" THEN {at} ELSE {},
          sour |-> g.indi.sour]

\* __get_source at REFN: the Source of the file goes into tree.sources unless
\* the id is there
MergeSources(S, g) ==
    IF g.indi.sour # NoSour /\ S[g.indi.sour.fid] = 0
       THEN [S EXCEPT ![g.indi.sour.fid] = g.indi.sour.num]
       ELSE S

\* 'add informations about families' for K
MergeFam(k, g, n, at) ==
    IF ~g.present THEN k
    ELSE [present |-> TRUE,
          num |-> IF k.present THEN k.num ELSE n + 1,
          chil_fid |-> k.chil_fid \cup g.chil_fid,
          fid |-> g.fid,
          notes |-> IF g.note # "-" THEN {at} ELSE {}]

\* Tree(): no individual, no family, no source
NoTree == [indi |-> NoIndi, fam |-> NoFam, L |-> FALSE, sources |-> [id \in SrcIds |-> 0]]

MergeInit ==
    /\ ged = [indi |-> NoGedIndi, fam |-> NoGedFam]
    /\ mtree = NoTree
    /\ notes = <<>>
    /\ indi_counter = 0
    /\ fam_counter = 0
    /\ nread = 0
    /\ records = <<>>
    /\ spc = "reading"

\* nothing is merged
MergeIdle ==
    /\ ged = [indi |-> NoGedIndi, fam |-> NoGedFam]
    /\ mtree = NoTree
    /\ notes = <<>>
    /\ indi_counter = 0
    /\ fam_counter = 0
    /\ nread = 0
    /\ records = <<>>
    /\ spc = "none"

\* one turn of 'for file in self.files_to_merge.files.values()'; 'for num in
\* ged.fam' takes the families in the order Gedcom made them: K before L when
\* the FAMC line of a sealing made K, before its FAM record was read
Merge_File ==
    /\ spc = "reading"
    /\ nread < MaxFiles
    /\ \E gi \in GedIndis : \E gf \in GedFams :
          LET g == [indi |-> gi, fam |-> gf]
              atIndi == Len(notes) + 1
              atFam == Len(notes) + Len(NewNotes(g))
              hasL == gf.present /\ gf.num = 2
              newL == hasL /\ ~mtree.L
              newK == gf.present /\ ~mtree.fam.present
              kFirst == ~hasL \/ SealedToK(g)
          IN  /\ ged' = g
              /\ notes' = notes \o NewNotes(g)
              /\ mtree' = [indi |-> MergeIndi(mtree.indi, g, indi_counter, atIndi),
                           fam |-> MergeFam(mtree.fam, gf,
                                            IF newL /\ ~kFirst THEN fam_counter + 1
                                            ELSE fam_counter, atFam),
                           L |-> mtree.L \/ hasL,
                           sources |-> MergeSources(mtree.sources, g)]
              /\ indi_counter' = IF gi.present /\ ~mtree.indi.present
                                    THEN indi_counter + 1 ELSE indi_counter
              /\ fam_counter' = fam_counter + (IF newK THEN 1 ELSE 0)
                                              + (IF newL THEN 1 ELSE 0)
    /\ nread' = nread + 1
    /\ UNCHANGED <<records, spc>>

\* sorted(): the places 1..n of a list in the order of their keys, equal keys
\* in the order of the list
RECURSIVE SortPlaces(_, _)
SortPlaces(keys, n) ==
    IF n = 0 THEN <<>>
    ELSE LET prev == SortPlaces(keys, n - 1)
             p == Cardinality({i \in 1..Len(prev) : keys[prev[i]] <= keys[n]})
         IN  SubSeq(prev, 1, p) \o <<n>> \o SubSeq(prev, p + 1, Len(prev))

\* sorted(tree.notes, key=lambda x: x.text)
SortedNotes(N) == SortPlaces([i \in 1..Len(N) |-> TextOrd(N[i].text)], Len(N))

\* the num of a note that does not look at the text of the one before it
NextNumAlways(text, prevText, prevNum) == prevNum + 1

\* n.num = notes[i - 1].num if the texts are equal, else notes[i - 1].num + 1
NextNum(text, prevText, prevNum) == IF text = prevText THEN prevNum ELSE prevNum + 1

\* the loop 'for i, n in enumerate(tree.notes)' over the sorted list
RECURSIVE Renumber(_, _, _)
Renumber(N, o, i) ==
    IF i > Len(o) THEN N
    ELSE Renumber([N EXCEPT ![o[i]].num =
                       IF i = 1 THEN 1
                       ELSE NextNum(N[o[i]].text, N[o[i - 1]].text, N[o[i - 1]].num)],
                  o, i + 1)

\* '# merge notes by text', after the last file
Merge_Notes ==
    /\ spc = "reading"
    /\ nread >= 1
    /\ notes' = Renumber(notes, SortedNotes(notes), 1)
    /\ spc' = "renumbered"
    /\ UNCHANGED <<ged, mtree, indi_counter, fam_counter, nread, records>>

\* sorted(self.notes, key=lambda x: x.num)
SortedByNum(N) == SortPlaces([i \in 1..Len(N) |-> N[i].num], Len(N))

\* Tree.print: a note is printed unless the one before it has its num
RECURSIVE NoteRecords(_, _, _)
NoteRecords(N, o, i) ==
    IF i > Len(o) THEN <<>>
    ELSE (IF i > 1 /\ N[o[i]].num = N[o[i - 1]].num THEN <<>> ELSE <<N[o[i]]>>)
         \o NoteRecords(N, o, i + 1)

\* tree.reset_num(); tree.print(file)
Merge_Print ==
    /\ spc = "renumbered"
    /\ records' = NoteRecords(notes, SortedByNum(notes), 1)
    /\ spc' = "printed"
    /\ UNCHANGED <<ged, mtree, notes, indi_counter, fam_counter, nread>>

MergeNext ==
    \/ Merge_File /\ UNCHANGED <<sessVars, taskVars, treeVars, mainVars, startVars, codecVars, contVars, parseVars, runVars>>
    \/ Merge_Notes /\ UNCHANGED <<sessVars, taskVars, treeVars, mainVars, startVars, codecVars, contVars, parseVars, runVars>>
    \/ Merge_Print /\ UNCHANGED <<sessVars, taskVars, treeVars, mainVars, startVars, codecVars, contVars, parseVars, runVars>>


(***************************************************************************)
(* Gedcom.__parse: the line reader of the decoder and its one-line         *)
(* pushback.  A physical line is its level and its tag; the tag "" is a    *)
(* blank line.                                                             *)
(***************************************************************************)
MaxLines == 3        \* physical lines of a decoded file

GedLines ==
    {[level |-> 0, tag |-> "INDI"], [level |-> 0, tag |-> "NOTE"],
     [level |-> 0, tag |-> "TRLR"], [level |-> 1, tag |-> "NAME"],
     [level |-> 1, tag |-> "SEX"], [level |-> 1, tag |-> "CONT"],
     [level |-> 2, tag |-> "TYPE"], [level |-> 0, tag |-> ""]}

GedFiles == UNION {[1..n -> GedLines] : n \in 0..MaxLines}

\* Gedcom.__get_line: what it returns (ok) and the reader it leaves (r)
get_line(f, r) ==
    IF r.flag THEN [ok |-> TRUE, r |-> [r EXCEPT !.flag = FALSE]]
    ELSE IF r.pos >= Len(f) THEN [ok |-> FALSE, r |-> [r EXCEPT !.eof = TRUE]]
    ELSE LET l == f[r.pos + 1]
         IN  IF l.tag = "" THEN [ok |-> FALSE, r |-> [r EXCEPT !.pos = @ + 1]]
             ELSE [ok |-> TRUE,
                   r |-> [r EXCEPT !.pos = @ + 1, !.level = l.level, !.tag = l.tag]]

\* the end of a handler: self.flag = True, then return to the caller
Pushback(r) == [r EXCEPT !.flag = TRUE]

ReturnTo(st) == SubSeq(st, 1, Len(st) - 1)

Running(name) == calls # <<>> /\ calls[Len(calls)] = name

\* Gedcom.__init__, up to the call of __parse
ParseInit ==
    /\ ged_f \in GedFiles
    /\ rdr = [pos |-> 0, flag |-> FALSE, level |-> 0, tag |-> "", eof |-> FALSE]
    /\ calls = <<"__parse">>

\* no file is decoded
ParseIdle ==
    /\ ged_f = <<>>
    /\ rdr = [pos |-> 0, flag |-> FALSE, level |-> 0, tag |-> "", eof |-> FALSE]
    /\ calls = <<>>

\* a turn of 'while self.__get_line()' in __parse
Parse_Turn ==
    /\ Running("__parse")
    /\ LET g == get_line(ged_f, rdr)
       IN  /\ rdr' = g.r
           /\ calls' = IF ~g.ok THEN ReturnTo(calls)
                       ELSE IF g.r.tag = "INDI" THEN Append(calls, "__get_indi")
                       ELSE IF g.r.tag = "NOTE"
                            THEN calls \o <<"__get_note", "__get_text">>
                       ELSE calls
    /\ UNCHANGED ged_f

\* a turn of 'while self.f and self.__get_line() and self.level > 0' in __get_indi
Get_indi_Turn ==
    /\ Running("__get_indi")
    /\ LET g == get_line(ged_f, rdr)
       IN  IF g.ok /\ g.r.level > 0
           THEN /\ rdr' = g.r
                /\ calls' = IF g.r.tag = "NAME"
                            THEN calls \o <<"__get_name", "__get_text">>
                            ELSE calls
           ELSE /\ rdr' = Pushback(g.r)
                /\ calls' = ReturnTo(calls)
    /\ UNCHANGED ged_f

\* a turn of 'while self.__get_line() and self.level > 1' in __get_name
Get_name_Turn ==
    /\ Running("__get_name")
    /\ LET g == get_line(ged_f, rdr)
       IN  IF g.ok /\ g.r.level > 1
           THEN rdr' = g.r /\ calls' = calls
           ELSE rdr' = Pushback(g.r) /\ calls' = ReturnTo(calls)
    /\ UNCHANGED ged_f

\* a turn of 'while self.__get_line()' in __get_text
Get_text_Turn ==
    /\ Running("__get_text")
    /\ LET g == get_line(ged_f, rdr)
       IN  IF g.ok /\ g.r.tag \in {"CONT", "CONC"}
           THEN rdr' = g.r /\ calls' = calls
           ELSE rdr' = Pushback(g.r) /\ calls' = ReturnTo(calls)
    /\ UNCHANGED ged_f

\* __get_note, after __get_text returned
Get_note_Return ==
    /\ Running("__get_note")
    /\ rdr' = Pushback(rdr)
    /\ calls' = ReturnTo(calls)
    /\ UNCHANGED ged_f

ParseNext ==
    \/ Parse_Turn /\ UNCHANGED <<sessVars, taskVars, treeVars, mainVars, startVars, codecVars, contVars, mergeVars, runVars>>
    \/ Get_indi_Turn /\ UNCHANGED <<sessVars, taskVars, treeVars, mainVars, startVars, codecVars, contVars, mergeVars, runVars>>
    \/ Get_name_Turn /\ UNCHANGED <<sessVars, taskVars, treeVars, mainVars, startVars, codecVars, contVars, mergeVars, runVars>>
    \/ Get_text_Turn /\ UNCHANGED <<sessVars, taskVars, treeVars, mainVars, startVars, codecVars, contVars, mergeVars, runVars>>
    \/ Get_note_Return /\ UNCHANGED <<sessVars, taskVars, treeVars, mainVars, startVars, codecVars, contVars, mergeVars, runVars>>

(***************************************************************************)
(* main after the login: Tree.add_indis on one batch, Tree.add_spouses,    *)
(* download_stuff, then the finally block.  The batch holds the persons B  *)
(* and C, a couple; "F" is the Fam of (B, C).  A task given to             *)
(* run_in_executor runs on a thread of the default executor from the       *)
(* moment it is dispatched.                                                *)
(***************************************************************************)
Persons == <<"B", "C">>

RelIds == {"r1", "r2"}

NoUnion == [present |-> FALSE, fid |-> None, facts |-> {}]

\* the tasks download_stuff dispatches for one individual, in its order
IndiJobs(a, p) ==
    <<<<"Indi.get_notes", p>>>>
    \o (IF a.get_ordinances THEN <<<<"add_ordinances", p>>>> ELSE <<>>)
    \o (IF a.get_contributors THEN <<<<"Indi.get_contributors", p>>>> ELSE <<>>)

\* ... and for one family
FamJobs(a) ==
    <<<<"Fam.get_notes", "F">>>>
    \o (IF a.get_contributors THEN <<<<"Fam.get_contributors", "F">>>> ELSE <<>>)

download_stuff(a, F) ==
    IndiJobs(a, Persons[1]) \o IndiJobs(a, Persons[2])
    \o (IF F.present THEN FamJobs(a) ELSE <<>>)

Jobs ==
    {<<k, p>> : k \in {"add_data", "Indi.get_notes", "add_ordinances",
                       "Indi.get_contributors"}, p \in {"B", "C"}}
    \cup {<<"add_marriage", r>> : r \in RelIds}
    \cup {<<"Fam.get_notes", "F">>, <<"Fam.get_contributors", "F">>}

\* the fields a task other than add_marriage writes, F being the Fam it finds
Writes(j, F) ==
    CASE j[1] = "add_data" ->
            {<<j[2], fld>> : fld \in {"living", "name", "gender", "facts", "notes",
                                      "sources", "memories"}}
      [] j[1] = "Indi.get_notes" -> {<<j[2], "notes">>}
      [] j[1] = "Indi.get_contributors" -> {<<j[2], "notes">>}
      [] j[1] = "add_ordinances" ->
            {<<j[2], fld>> : fld \in {"baptism", "confirmation", "initiatory",
                                      "endowment", "sealing_child"}}
            \cup (IF F.present THEN {<<"F", "sealing_spouse">>} ELSE {})
      [] j[1] \in {"Fam.get_notes", "Fam.get_contributors"} ->
            IF F.fid # None THEN {<<"F", "notes">>} ELSE {}
      [] OTHER -> {}

Logged(j, W) == {<<j, w[1], w[2]>> : w \in W}

JoinedAny(jb, S) == \E j \in S : jb[j] = "done"

\* 'for future in futures: await future' is over: every task has ended
Joined(jb, S) == \A j \in S : jb[j] = "done"

Unended(jb) == {j \in Jobs : jb[j] \notin {"none", "done", "failed"}}

RunInit ==
    /\ args \in [marriage : BOOLEAN, get_ordinances : BOOLEAN, get_contributors : BOOLEAN]
    /\ couple_rels \in SUBSET RelIds
    /\ rpc = "test"
    /\ job = [j \in Jobs |-> "none"]
    /\ sent = 0
    /\ tindi = {}
    /\ tfam = NoUnion
    /\ assigned = <<>>
    /\ wlog = {}
    /\ mreqs = {}
    /\ recorded = FALSE
    /\ ended = {}
    /\ resets = 0
    /\ busy = {}

\* no run
RunIdle ==
    /\ args = [marriage |-> FALSE, get_ordinances |-> FALSE, get_contributors |-> FALSE]
    /\ couple_rels = {}
    /\ rpc = "none"
    /\ job = [j \in Jobs |-> "none"]
    /\ sent = 0
    /\ tindi = {}
    /\ tfam = NoUnion
    /\ assigned = <<>>
    /\ wlog = {}
    /\ mreqs = {}
    /\ recorded = FALSE
    /\ ended = {}
    /\ resets = 0
    /\ busy = {}

\* tree = Tree(fs); the check of the LDS account: sys.exit(2) unless "OK"
Main_Test ==
    /\ rpc = "test"
    /\ \/ rpc' = "add_indis"
       \/ args.get_ordinances /\ rpc' = "exited"
    /\ UNCHANGED <<args, couple_rels, job, sent, tindi, tfam, assigned, wlog, mreqs,
                   recorded, ended, resets, busy>>

\* add_datas: self.indi[id] = Indi(id, self); run_in_executor(add_data, person)
Add_datas_Dispatch ==
    /\ rpc = "add_indis"
    /\ sent < Len(Persons)
    /\ LET p == Persons[sent + 1]
       IN  /\ tindi' = tindi \cup {p}
           /\ job' = [job EXCEPT ![<<"add_data", p>>] = "queued"]
    /\ sent' = sent + 1
    /\ UNCHANGED <<args, couple_rels, rpc, tfam, assigned, wlog, mreqs, recorded, ended,
                   resets, busy>>

\* loop.run_until_complete(add_datas(loop, data)) returns
Add_datas_Join ==
    /\ rpc = "add_indis"
    /\ sent = Len(Persons)
    /\ Joined(job, {<<"add_data", Persons[i]>> : i \in 1..Len(Persons)})
    /\ rpc' = "record"
    /\ UNCHANGED <<args, couple_rels, job, sent, tindi, tfam, assigned, wlog, mreqs,
                   recorded, ended, resets, busy>>

\* add_indis: the relationship tuples of the batch; then the traversal, which
\* finds no one new, and 'if args.marriage: tree.add_spouses(todo)'
Add_indis_Record ==
    /\ rpc = "record"
    /\ recorded' = TRUE
    /\ ended' = ended \cup {"add_indis"}
    /\ rpc' = IF args.marriage /\ couple_rels # {} THEN "add_spouses" ELSE "download_stuff"
    /\ sent' = 0
    /\ wlog' = {}
    /\ UNCHANGED <<args, couple_rels, job, tindi, tfam, assigned, mreqs, resets, busy>>

\* add_spouses: add_indis has no one to fetch; add_fams, add_fam
Add_spouses_Fam ==
    /\ rpc = "add_spouses"
    /\ ~tfam.present
    /\ tfam' = [tfam EXCEPT !.present = TRUE]
    /\ UNCHANGED <<args, couple_rels, rpc, job, sent, tindi, assigned, wlog, mreqs,
                   recorded, ended, resets, busy>>

\* add: run_in_executor(self.fam[(father, mother)].add_marriage, relfid)
Add_Dispatch ==
    /\ rpc = "add_spouses"
    /\ tfam.present
    /\ \E r \in couple_rels :
          /\ job[<<"add_marriage", r>>] = "none"
          /\ job' = [job EXCEPT ![<<"add_marriage", r>>] = "queued"]
    /\ sent' = sent + 1
    /\ UNCHANGED <<args, couple_rels, rpc, tindi, tfam, assigned, wlog, mreqs, recorded,
                   ended, resets, busy>>

\* loop.run_until_complete(add(loop, rels)) returns, and add_spouses with it
Add_Join ==
    /\ rpc = "add_spouses"
    /\ sent = Cardinality(couple_rels)
    /\ Joined(job, {<<"add_marriage", r>> : r \in couple_rels})
    /\ ended' = ended \cup {"add_spouses"}
    /\ rpc' = "download_stuff"
    /\ sent' = 0
    /\ wlog' = {}
    /\ UNCHANGED <<args, couple_rels, job, tindi, tfam, assigned, mreqs, recorded,
                   resets, busy>>

\* 'await future' on a task that raised: the exception leaves
\* run_until_complete and the try block of main
Add_Raise ==
    /\ rpc = "add_spouses"
    /\ sent = Cardinality(couple_rels)
    /\ \E r \in couple_rels : job[<<"add_marriage", r>>] = "failed"
    /\ rpc' = "finally"
    /\ UNCHANGED <<args, couple_rels, job, sent, tindi, tfam, assigned, wlog, mreqs,
                   recorded, ended, resets, busy>>

\* download_stuff: the next run_in_executor
Download_Dispatch ==
    /\ rpc = "download_stuff"
    /\ sent < Len(download_stuff(args, tfam))
    /\ job' = [job EXCEPT ![download_stuff(args, tfam)[sent + 1]] = "queued"]
    /\ sent' = sent + 1
    /\ UNCHANGED <<args, couple_rels, rpc, tindi, tfam, assigned, wlog, mreqs, recorded,
                   ended, resets, busy>>

\* loop.run_until_complete(download_stuff(loop)) returns
Download_Join ==
    /\ rpc = "download_stuff"
    /\ sent = Len(download_stuff(args, tfam))
    /\ Joined(job, {download_stuff(args, tfam)[i] : i \in 1..sent})
    /\ ended' = ended \cup {"download_stuff"}
    /\ rpc' = "finally"
    /\ UNCHANGED <<args, couple_rels, job, sent, tindi, tfam, assigned, wlog, mreqs,
                   recorded, resets, busy>>

\* finally: tree.reset_num()
Finally_Reset_num ==
    /\ rpc = "finally"
    /\ resets' = resets + 1
    /\ busy' = Unended(job)
    /\ rpc' = "print"
    /\ UNCHANGED <<args, couple_rels, job, sent, tindi, tfam, assigned, wlog, mreqs,
                   recorded, ended>>

\* finally: tree.print(args.outfile)
Finally_Print ==
    /\ rpc = "print"
    /\ rpc' = "printed"
    /\ UNCHANGED <<args, couple_rels, job, sent, tindi, tfam, assigned, wlog, mreqs,
                   recorded, ended, resets, busy>>

\* a thread of the executor runs add_data, get_notes, add_ordinances or
\* get_contributors
Job_Run ==
    \E j \in Jobs :
       /\ j[1] # "add_marriage"
       /\ job[j] = "queued"
       /\ job' = [job EXCEPT ![j] = "done"]
       /\ wlog' = wlog \cup Logged(j, Writes(j, tfam))
       /\ UNCHANGED <<args, couple_rels, rpc, sent, tindi, tfam, assigned, mreqs,
                      recorded, ended, resets, busy>>

\* add_marriage: 'if not self.fid:'
Add_marriage_Test ==
    \E r \in RelIds :
       /\ job[<<"add_marriage", r>>] = "queued"
       /\ job' = [job EXCEPT ![<<"add_marriage", r>>] =
                     IF tfam.fid = None THEN "tested" ELSE "done"]
       /\ UNCHANGED <<args, couple_rels, rpc, sent, tindi, tfam, assigned, wlog, mreqs,
                      recorded, ended, resets, busy>>

\* add_marriage: 'self.fid = fid'
Add_marriage_Store ==
    \E r \in RelIds :
       /\ job[<<"add_marriage", r>>] = "tested"
       /\ tfam' = [tfam EXCEPT !.fid = r]
       /\ assigned' = Append(assigned, r)
       /\ wlog' = wlog \cup {<<<<"add_marriage", r>>, "F", "fid">>}
       /\ job' = [job EXCEPT ![<<"add_marriage", r>>] = "stored"]
       /\ UNCHANGED <<args, couple_rels, rpc, sent, tindi, mreqs, recorded, ended,
                      resets, busy>>

\* add_marriage: get_url of the relationship self.fid names, its facts, its
\* sources; sources["sourceDescriptions"] raises TypeError when the second
\* get_url returned None
Add_marriage_Fetch ==
    \E r \in RelIds :
       /\ job[<<"add_marriage", r>>] = "stored"
       /\ mreqs' = mreqs \cup {<<r, tfam.fid>>}
       /\ tfam' = [tfam EXCEPT !.facts = @ \cup {tfam.fid}]
       /\ \/ /\ job' = [job EXCEPT ![<<"add_marriage", r>>] = "done"]
             /\ wlog' = wlog \cup Logged(<<"add_marriage", r>>,
                                         {<<"F", "facts">>, <<"F", "sources">>})
          \/ /\ job' = [job EXCEPT ![<<"add_marriage", r>>] = "failed"]
             /\ wlog' = wlog \cup Logged(<<"add_marriage", r>>, {<<"F", "facts">>})
       /\ UNCHANGED <<args, couple_rels, rpc, sent, tindi, assigned, recorded, ended,
                      resets, busy>>

RunNext ==
    \/ Main_Test /\ UNCHANGED <<sessVars, taskVars, treeVars, mainVars, startVars, codecVars, contVars, mergeVars, parseVars>>
    \/ Add_datas_Dispatch /\ UNCHANGED <<sessVars, taskVars, treeVars, mainVars, startVars, codecVars, contVars, mergeVars, parseVars>>
    \/ Add_datas_Join /\ UNCHANGED <<sessVars, taskVars, treeVars, mainVars, startVars, codecVars, contVars, mergeVars, parseVars>>
    \/ Add_indis_Record /\ UNCHANGED <<sessVars, taskVars, treeVars, mainVars, startVars, codecVars, contVars, mergeVars, parseVars>>
    \/ Add_spouses_Fam /\ UNCHANGED <<sessVars, taskVars, treeVars, mainVars, startVars, codecVars, contVars, mergeVars, parseVars>>
    \/ Add_Dispatch /\ UNCHANGED <<sessVars, taskVars, treeVars, mainVars, startVars, codecVars, contVars, mergeVars, parseVars>>
    \/ Add_Join /\ UNCHANGED <<sessVars, taskVars, treeVars, mainVars, startVars, codecVars, contVars, mergeVars, parseVars>>
    \/ Add_Raise /\ UNCHANGED <<sessVars, taskVars, treeVars, mainVars, startVars, codecVars, contVars, mergeVars, parseVars>>
    \/ Download_Dispatch /\ UNCHANGED <<sessVars, taskVars, treeVars, mainVars, startVars, codecVars, contVars, mergeVars, parseVars>>
    \/ Download_Join /\ UNCHANGED <<sessVars, taskVars, treeVars, mainVars, startVars, codecVars, contVars, mergeVars, parseVars>>
    \/ Finally_Reset_num /\ UNCHANGED <<sessVars, taskVars, treeVars, mainVars, startVars, codecVars, contVars, mergeVars, parseVars>>
    \/ Finally_Print /\ UNCHANGED <<sessVars, taskVars, treeVars, mainVars, startVars, codecVars, contVars, mergeVars, parseVars>>
    \/ Job_Run /\ UNCHANGED <<sessVars, taskVars, treeVars, mainVars, startVars, codecVars, contVars, mergeVars, parseVars>>
    \/ Add_marriage_Test /\ UNCHANGED <<sessVars, taskVars, treeVars, mainVars, startVars, codecVars, contVars, mergeVars, parseVars>>
    \/ Add_marriage_Store /\ UNCHANGED <<sessVars, taskVars, treeVars, mainVars, startVars, codecVars, contVars, mergeVars, parseVars>>
    \/ Add_marriage_Fetch /\ UNCHANGED <<sessVars, taskVars, treeVars, mainVars, startVars, codecVars, contVars, mergeVars, parseVars>>

InitSession == SessInit /\ TaskIdle /\ TreeIdle /\ MainIdle /\ StartIdle /\ CodecIdle /\ ContIdle /\ MergeIdle /\ ParseIdle /\ RunIdle

SpecSession == InitSession /\ [][SessNext]_vars

InitTasks == TaskInit /\ SessIdle /\ TreeIdle /\ MainIdle /\ StartIdle /\ CodecIdle /\ ContIdle /\ MergeIdle /\ ParseIdle /\ RunIdle

SpecTasks == InitTasks /\ [][TaskNext]_vars

InitTree == TreeInit /\ MainIdle /\ SessIdle /\ TaskIdle /\ StartIdle /\ CodecIdle /\ ContIdle /\ MergeIdle /\ ParseIdle /\ RunIdle

SpecTree == InitTree /\ [][TreeNext]_vars


(***************************************************************************)
(* main (getmyancestors.py) and Download.download (classes.py): the        *)
(* starting individuals, the ascent loop, the descent loop, the spouses.   *)
(***************************************************************************)
Seeds == {{"A"}, {"A", "B"}}

\* todo = tree.add_parents(todo) - done, without the subtraction
FrontierAll(returned, d) == returned

\* todo = tree.add_parents(todo) - done
Frontier(returned, d) == returned \ d

MainInit ==
    /\ mpc = "start"
    /\ seed \in Seeds
    /\ ascend \in 0..MaxGen
    /\ descend \in 0..MaxGen
    /\ marriage \in BOOLEAN
    /\ mtodo = {}
    /\ done = {}
    /\ gen = 0
    /\ frontiers = <<>>

\* tree.add_indis(todo)
Main_AddIndis ==
    /\ mpc = "start"
    /\ Begin("add_indis", seed)
    /\ mpc' = "started"
    /\ UNCHANGED <<seed, ascend, descend, marriage, mtodo, done, gen, frontiers>>

\* todo = set(todo); done = set()
Main_Started ==
    /\ mpc = "started" /\ call = "none"
    /\ mtodo' = seed
    /\ done' = {}
    /\ gen' = 0
    /\ frontiers' = <<>>
    /\ mpc' = "ascend"
    /\ UNCHANGED <<seed, ascend, descend, marriage>>
    /\ UNCHANGED treeVars

\* for i in range(args.ascend): one turn up to the call of add_parents
Main_Ascend ==
    /\ mpc = "ascend"
    /\ gen < ascend
    /\ mtodo # {}
    /\ done' = done \cup mtodo
    /\ frontiers' = Append(frontiers, mtodo)
    /\ Begin("add_parents", mtodo)
    /\ mpc' = "ascending"
    /\ UNCHANGED <<seed, ascend, descend, marriage, mtodo, gen>>

\* todo = <what add_parents returned> - done
Main_Ascended ==
    /\ mpc = "ascending" /\ call = "none"
    /\ mtodo' = Frontier(result, done)
    /\ gen' = gen + 1
    /\ mpc' = "ascend"
    /\ UNCHANGED <<seed, ascend, descend, marriage, done, frontiers>>
    /\ UNCHANGED treeVars

\* the ascent loop is over; todo = set(tree.indi.keys()); done = set()
Main_AscentOver ==
    /\ mpc = "ascend"
    /\ (gen >= ascend \/ mtodo = {})
    /\ mtodo' = DOMAIN indi
    /\ done' = {}
    /\ gen' = 0
    /\ frontiers' = <<>>
    /\ mpc' = "descend"
    /\ UNCHANGED <<seed, ascend, descend, marriage>>
    /\ UNCHANGED treeVars

\* for i in range(args.descend): one turn up to the call of add_children
Main_Descend ==
    /\ mpc = "descend"
    /\ gen < descend
    /\ mtodo # {}
    /\ done' = done \cup mtodo
    /\ frontiers' = Append(frontiers, mtodo)
    /\ Begin("add_children", mtodo)
    /\ mpc' = "descending"
    /\ UNCHANGED <<seed, ascend, descend, marriage, mtodo, gen>>

\* todo = <what add_children returned> - done
Main_Descended ==
    /\ mpc = "descending" /\ call = "none"
    /\ mtodo' = Frontier(result, done)
    /\ gen' = gen + 1
    /\ mpc' = "descend"
    /\ UNCHANGED <<seed, ascend, descend, marriage, done, frontiers>>
    /\ UNCHANGED treeVars

\* the descent loop is over; if args.marriage: tree.add_spouses(set(tree.indi.keys()))
Main_Spouses ==
    /\ mpc = "descend"
    /\ (gen >= descend \/ mtodo = {})
    /\ IF marriage
          THEN /\ mtodo' = DOMAIN indi
               /\ Begin("add_spouses", DOMAIN indi)
               /\ mpc' = "spouses"
          ELSE /\ mpc' = "stuff"
               /\ UNCHANGED mtodo
               /\ UNCHANGED treeVars
    /\ UNCHANGED <<seed, ascend, descend, marriage, done, gen, frontiers>>

\* add_spouses is back: download_stuff next, or the finally block if it raised
Main_SpousesOver ==
    /\ mpc = "spouses" /\ call = "none"
    /\ mpc' = IF raised THEN "finally" ELSE "stuff"
    /\ UNCHANGED <<seed, ascend, descend, marriage, mtodo, done, gen, frontiers>>
    /\ UNCHANGED treeVars

\* loop.run_until_complete(download_stuff(loop)), then the finally block
Main_Stuff ==
    /\ mpc = "stuff"
    /\ mpc' = "finally"
    /\ UNCHANGED <<seed, ascend, descend, marriage, mtodo, done, gen, frontiers>>
    /\ UNCHANGED treeVars

MainNext ==
    \/ Main_AddIndis /\ UNCHANGED <<sessVars, taskVars, startVars, codecVars, contVars, mergeVars, parseVars, runVars>>
    \/ Main_Started /\ UNCHANGED <<sessVars, taskVars, startVars, codecVars, contVars, mergeVars, parseVars, runVars>>
    \/ Main_Ascend /\ UNCHANGED <<sessVars, taskVars, startVars, codecVars, contVars, mergeVars, parseVars, runVars>>
    \/ Main_Ascended /\ UNCHANGED <<sessVars, taskVars, startVars, codecVars, contVars, mergeVars, parseVars, runVars>>
    \/ Main_AscentOver /\ UNCHANGED <<sessVars, taskVars, startVars, codecVars, contVars, mergeVars, parseVars, runVars>>
    \/ Main_Descend /\ UNCHANGED <<sessVars, taskVars, startVars, codecVars, contVars, mergeVars, parseVars, runVars>>
    \/ Main_Descended /\ UNCHANGED <<sessVars, taskVars, startVars, codecVars, contVars, mergeVars, parseVars, runVars>>
    \/ Main_Spouses /\ UNCHANGED <<sessVars, taskVars, startVars, codecVars, contVars, mergeVars, parseVars, runVars>>
    \/ Main_SpousesOver /\ UNCHANGED <<sessVars, taskVars, startVars, codecVars, contVars, mergeVars, parseVars, runVars>>
    \/ Main_Stuff /\ UNCHANGED <<sessVars, taskVars, startVars, codecVars, contVars, mergeVars, parseVars, runVars>>
    \/ AddIndis_Batch /\ UNCHANGED <<sessVars, taskVars, mainVars, startVars, codecVars, contVars, mergeVars, parseVars, runVars>>
    \/ AddIndis_Return /\ UNCHANGED <<sessVars, taskVars, mainVars, startVars, codecVars, contVars, mergeVars, parseVars, runVars>>
    \/ AddParents_Return /\ UNCHANGED <<sessVars, taskVars, mainVars, startVars, codecVars, contVars, mergeVars, parseVars, runVars>>
    \/ AddChildren_Return /\ UNCHANGED <<sessVars, taskVars, mainVars, startVars, codecVars, contVars, mergeVars, parseVars, runVars>>
    \/ AddSpouses_Return /\ UNCHANGED <<sessVars, taskVars, mainVars, startVars, codecVars, contVars, mergeVars, parseVars, runVars>>

InitMain == TreeInit /\ MainInit /\ SessIdle /\ TaskIdle /\ StartIdle /\ CodecIdle /\ ContIdle /\ MergeIdle /\ ParseIdle /\ RunIdle

SpecMain == InitMain /\ [][MainNext]_vars

InitStart == StartInit /\ SessIdle /\ TaskIdle /\ TreeIdle /\ MainIdle /\ CodecIdle /\ ContIdle /\ MergeIdle /\ ParseIdle /\ RunIdle

SpecStart == InitStart /\ [][StartNext]_vars

InitCodec == CodecInit /\ SessIdle /\ TaskIdle /\ TreeIdle /\ MainIdle /\ StartIdle /\ ContIdle /\ MergeIdle /\ ParseIdle /\ RunIdle

SpecCodec == InitCodec /\ [][CodecNext]_vars

InitCont == ContInit /\ SessIdle /\ TaskIdle /\ TreeIdle /\ MainIdle /\ StartIdle /\ CodecIdle /\ MergeIdle /\ ParseIdle /\ RunIdle

SpecCont == InitCont /\ [][ContNext]_vars

InitMerge == MergeInit /\ SessIdle /\ TaskIdle /\ TreeIdle /\ MainIdle /\ StartIdle /\ CodecIdle /\ ContIdle /\ ParseIdle /\ RunIdle

SpecMerge == InitMerge /\ [][MergeNext]_vars

InitParse == ParseInit /\ SessIdle /\ TaskIdle /\ TreeIdle /\ MainIdle /\ StartIdle /\ CodecIdle /\ ContIdle /\ MergeIdle /\ RunIdle

SpecParse == InitParse /\ [][ParseNext]_vars

\* __parse runs on: no turn of the decoder is put off for ever
SpecParseFair == SpecParse /\ WF_vars(ParseNext)

InitRun == RunInit /\ SessIdle /\ TaskIdle /\ TreeIdle /\ MainIdle /\ StartIdle /\ CodecIdle /\ ContIdle /\ MergeIdle /\ ParseIdle

SpecRun == InitRun /\ [][RunNext]_vars

(***************************************************************************)
(* Claims about the Graph Store and the traversal.                         *)
(***************************************************************************)

\* C1: add_indis is idempotent for known ids. A call of add_indis whose ids
\* are all in the individual table already (or None) starts with nothing to
\* request, and the only step such a call takes is its return, which leaves
\* the individuals, their numbers, the families and the counters as they
\* were: the Individual of x is still the one the first call made.
C1_AddIndisIdempotent ==
    [][ /\ (call = "none" /\ call' = "add_indis"
              /\ \A fid \in fids' : fid = None \/ fid \in DOMAIN indi)
           => (new_fids' = {} /\ reqs' = 0 /\ indi' = indi)
        /\ (call = "add_indis" /\ new_fids = {} /\ reqs = 0)
           => (call' = "none" /\ indi' = indi /\ fam' = fam
               /\ Indi_counter' = Indi_counter /\ Fam_counter' = Fam_counter
               /\ reqs' = 0)
      ]_vars

\* add_indis runs on ids that are known, one at least, and has requested nothing
C1_Witness ==
    /\ call = "add_indis"
    /\ fids \cap DOMAIN indi # {}
    /\ fids \subseteq DOMAIN indi \cup {None}
    /\ new_fids = {}
    /\ reqs = 0

\* C2: an Individual, once created for an id, is never deleted or replaced:
\* in every step each id of the table stays in the table with the same num,
\* and keeps the parent, child and spouse tuples recorded so far.
C2_IndiNeverReplaced ==
    [][ \A x \in DOMAIN indi :
           /\ x \in DOMAIN indi'
           /\ indi'[x].num = indi[x].num
           /\ indi[x].parents \subseteq indi'[x].parents
           /\ indi[x].children \subseteq indi'[x].children
           /\ indi[x].spouses \subseteq indi'[x].spouses
      ]_vars

\* C3: there is one Union per (father, mother) key: as many keys as Unions
\* were ever made, no two keys with the same num; a Union that exists keeps
\* its num, its children and its relationship id in every step; and add_fam
\* on a key of the table returns the store it was given.
C3_OneFamPerKey ==
    [][ /\ \A k \in DOMAIN fam :
              /\ k \in DOMAIN fam'
              /\ fam'[k].num = fam[k].num
              /\ fam[k].chil_fid \subseteq fam'[k].chil_fid
              /\ fam[k].fid # None => fam'[k].fid = fam[k].fid
        /\ Fam_counter' = Cardinality(DOMAIN fam')
        /\ \A k1, k2 \in DOMAIN fam' : fam'[k1].num = fam'[k2].num => k1 = k2
        /\ LET st == [indi |-> indi', fam |-> fam', Fam_counter |-> Fam_counter']
           IN  \A k \in DOMAIN fam' : AddFam(st, k[1], k[2]) = st
      ]_vars

\* a Union that add_trio and add_spouses both asked add_fam for: it has a
\* child and a relationship id, and it is the only Union made
C3_Witness ==
    /\ call = "none"
    /\ Fam_counter = 1
    /\ \E k \in DOMAIN fam : fam[k].chil_fid # {} /\ fam[k].fid # None /\ fam[k].num = 1

\* C4: the ascent loop calls add_parents at most args.ascend times and the
\* descent loop add_children at most args.descend times, no call is made with
\* an empty frontier, and no id is in the frontier of two turns of one loop.
C4_FrontierConvergence ==
    /\ mpc \in {"ascend", "ascending"} => Len(frontiers) <= ascend
    /\ mpc \notin {"start", "started", "ascend", "ascending"} => Len(frontiers) <= descend
    /\ \A i \in 1..Len(frontiers) : frontiers[i] # {}
    /\ \A i, j \in 1..Len(frontiers) : i # j => frontiers[i] \cap frontiers[j] = {}

\* in the graph with the cycle, the ascent stops after two turns with turns
\* left: add_parents returned parents and all of them were done
C4_Witness ==
    /\ world.par = {<<"B", None, "A">>, <<"A", None, "B">>}
    /\ mpc = "ascend"
    /\ Len(frontiers) = 2
    /\ gen < ascend
    /\ result # {}
    /\ mtodo = {}

(***************************************************************************)
(* Claims about the start of a run.                                        *)
(***************************************************************************)

\* C11: when the first authentication is rejected no acquisition request is
\* ever issued: the run never builds its Tree, never acquires, never prints,
\* and the caller that gets login()'s answer goes to its exit.
C11_RejectedLoginAborts ==
    /\ rejected => acq = 0
    /\ rejected => lpc \notin {"tree", "acquiring", "printed"}
    /\ (rejected /\ lpc = "returned") => (~logged /\ AfterLogin(logged) = "exited")

\* main left with sys.exit(2) after login() returned False
C11_Witness ==
    /\ prog = "main"
    /\ rejected
    /\ ~logged
    /\ lpc = "exited"
    /\ acq = 0

(***************************************************************************)
(* Claims about the GEDCOM codec.                                          *)
(***************************************************************************)

\* C12: round trip. What Gedcom reads from the text that Tree.print wrote is
\* the individual that was printed: same external id, name, gender, facts,
\* baptism, confirmation, initiatory, endowment and child sealing.
C12_RoundTrip ==
    cpc = "parsed" => parsed = G

\* the first line of the string given to cont
FirstLine == SplitLines(string)[1]

\* the first line has exactly 256 bytes, all of them ASCII
FirstLine256 ==
    /\ wpc # "none"
    /\ SplitLines(string) # <<>>
    /\ Len(FirstLine) = 256
    /\ Bytes(FirstLine) = 256

C14_FoldExact ==
    (wpc = "read" /\ \E i \in 1..Len(Value(string)) : Value(string)[i] = "NL")
        => folded = Value(string)

\* C17: half-known-parent linking. For a mother m and a child c in the table,
\* add_trio(None, m, c) leaves one family with the key (None, m), made if it
\* was not there, with no husband and m as wife; c is among its children,
\* the key is in c's famc and in m's fams; no other family is made and
\* a second call changes nothing.
C17_HalfKnownTrio ==
    \A m, c \in DOMAIN indi :
        LET key == <<None, m>>
            s == AddTrio(Store, None, m, c)
        IN  /\ DOMAIN s.fam = DOMAIN fam \cup {key}
            /\ s.Fam_counter = Fam_counter + (IF key \in DOMAIN fam THEN 0 ELSE 1)
            /\ \A k \in DOMAIN fam \ {key} : s.fam[k] = fam[k]
            /\ s.fam[key].husb_fid = None
            /\ s.fam[key].wife_fid = m
            /\ s.fam[key].chil_fid =
                  (IF key \in DOMAIN fam THEN fam[key].chil_fid ELSE {}) \cup {c}
            /\ key \in s.indi[c].famc_fid
            /\ key \in s.indi[m].fams_fid
            /\ AddTrio(s, None, m, c) = s

\* add_parents has linked A to its mother C alone, and to B and C
C17_Witness ==
    /\ call = "none"
    /\ "A" \in DOMAIN indi /\ "C" \in DOMAIN indi
    /\ <<None, "C">> \in DOMAIN fam
    /\ fam[<<None, "C">>].husb_fid = None
    /\ "A" \in fam[<<None, "C">>].chil_fid
    /\ <<None, "C">> \in indi["A"].famc_fid
    /\ <<None, "C">> \in indi["C"].fams_fid

\* C18: numeric ids are unique and dense. When no method of the Tree and no
\* detail task is running, the nums of the individuals in Tree.indi are
\* pairwise distinct and are 1..n, the same for the families in Tree.fam and
\* for the Sources in Tree.sources, also after a fan-out of detail tasks
\* that ran concurrently.
C18_NumsUniqueDense ==
    /\ call = "none"
          => /\ \A x, y \in DOMAIN indi : indi[x].num = indi[y].num => x = y
             /\ {indi[x].num : x \in DOMAIN indi} = 1..Cardinality(DOMAIN indi)
             /\ \A k, l \in DOMAIN fam : fam[k].num = fam[l].num => k = l
             /\ {fam[k].num : k \in DOMAIN fam} = 1..Cardinality(DOMAIN fam)
    /\ (\A t \in Threads : tpc[t] \in {"done", "raised"})
          => LET S == {id \in SrcIds : Known(id)}
             IN  /\ \A a, b \in S :
                       srcObj[sources[a]].num = srcObj[sources[b]].num => a = b
                 /\ {srcObj[sources[a]].num : a \in S} = 1..Cardinality(S)

\* the step on which add_parents returns
AddParentsReturns == call = "add_parents" /\ call' = "none"

\* C19 as stated: when add_parents returns, every recorded pair of a known
\* frontier individual with the father or the mother in the table has its
\* family, with the individual among the children, also when the other
\* parent has an id that is not in the table.
C19_LinksWhenOneParentKnown ==
    [][ AddParentsReturns
        => \A x \in fids \cap DOMAIN indi : \A p \in indi[x].parents :
              (p[1] \in DOMAIN indi \/ p[2] \in DOMAIN indi)
                 => /\ p \in DOMAIN fam'
                    /\ x \in fam'[p].chil_fid
      ]_vars

\* C19, amended: when add_parents returns, a recorded pair of a known frontier
\* individual has its family, with the individual among the children and the
\* key in the individual's famc, if both parents are in the table or one is
\* and the other is none; a pair with a parent id that is not in the table
\* is not linked by the call: its family is neither made nor changed.
C19_LinksKnownParents ==
    [][ AddParentsReturns
        => \A x \in fids \cap DOMAIN indi : \A p \in indi[x].parents :
              IF \/ (p[1] \in DOMAIN indi /\ p[2] \in DOMAIN indi)
                 \/ (p[1] = None /\ p[2] \in DOMAIN indi)
                 \/ (p[2] = None /\ p[1] \in DOMAIN indi)
                 THEN /\ p \in DOMAIN fam'
                      /\ x \in fam'[p].chil_fid
                      /\ p \in indi'[x].famc_fid
                 ELSE /\ p \in DOMAIN fam' <=> p \in DOMAIN fam
                      /\ p \in DOMAIN fam => fam'[p] = fam[p]
                      /\ p \in indi'[x].famc_fid => p \in indi[x].famc_fid
      ]_vars

\* add_parents({A}) has returned: the mother C was fetched, the father B was
\* not, and A has no family of B and C
C19_Witness ==
    /\ world.par = {<<"B", "C", "A">>}
    /\ call = "none"
    /\ result = {"B", "C"}
    /\ "A" \in DOMAIN indi /\ "C" \in DOMAIN indi /\ "B" \notin DOMAIN indi
    /\ <<"B", "C">> \in indi["A"].parents
    /\ <<"B", "C">> \notin DOMAIN fam

\* C20 as stated: add_parents returns the parent ids this call has fetched:
\* no None, no id that is not in the table after the call, and nothing when
\* the call sent no request because every parent was in the table before.
C20_ReturnsNewlyFetched ==
    [][ AddParentsReturns
        => /\ None \notin result'
           /\ result' \subseteq DOMAIN indi'
           /\ reqs = 0 => result' = {}
      ]_vars

\* C20, amended: add_parents returns the parent ids it collected from the
\* pairs of the known frontier individuals, without None, whether or not
\* they were in the table before or are in the table after the call; each
\* is a parent the server records for an individual of the frontier.
C20_ReturnsRecordedParents ==
    [][ AddParentsReturns
        => /\ None \notin result'
           /\ result' \subseteq coll
           /\ coll \subseteq result' \cup {None}
           /\ \A p \in result' :
                 \E r \in world.par : r[3] \in fids /\ (p = r[1] \/ p = r[2])
      ]_vars

\* add_parents({A}) has returned B, the only parent of A, and A is a child of
\* the family of B alone
C20_Witness ==
    /\ world.par = {<<"B", None, "A">>, <<"A", None, "B">>}
    /\ call = "none"
    /\ result = {"B"}
    /\ "A" \in DOMAIN indi /\ "B" \in DOMAIN indi
    /\ <<"B", None>> \in DOMAIN fam
    /\ "A" \in fam[<<"B", None>>].chil_fid

\* C25: the line-length budget. Of the physical lines cont writes for a
\* string, the first has at most 255 bytes, the level and the tag of the
\* string included, and every other one, under CONC or under CONT, has at most
\* 248 bytes after its level and tag.
C25_LineBudget ==
    wpc \in {"written", "read"}
        => \A i \in 1..Len(out) :
              /\ i = 1 => Bytes(out[i].data) <= 255
              /\ i > 1 => /\ out[i].tag \in {"CONC", "CONT"}
                          /\ Bytes(out[i].data) <= 248

\* a value of two-byte characters and a second line of 250 bytes: a CONC
\* line of 248 bytes in 124 characters, and a CONT line cut at 248 bytes
C25_Witness ==
    /\ wpc = "written"
    /\ \E i \in 1..Len(string) : string[i] = "e2"
    /\ \E i \in 2..Len(out) :
          out[i].tag = "CONC" /\ Bytes(out[i].data) = 248 /\ Len(out[i].data) = 124
    /\ \E i \in 2..Len(out) - 1 :
          /\ out[i].tag = "CONT" /\ Bytes(out[i].data) = 248
          /\ out[i + 1].tag = "CONC"

\* the lines of the value put together again: a line that is not under CONC
\* opens a line, a CONC line goes on with the last one
RECURSIVE Rejoin(_)
Rejoin(o) ==
    IF o = <<>> THEN <<>>
    ELSE LET r == Rejoin(SubSeq(o, 1, Len(o) - 1))
             l == o[Len(o)]
         IN  IF l.tag = "CONC" /\ r # <<>>
                THEN [r EXCEPT ![Len(r)] = @ \o l.data]
                ELSE Append(r, l.data)

\* C30 as stated: cont ends, every segment it writes is non-empty, and the
\* first segment of a line and its CONC segments put together are the line.
C30_LosslessNonEmpty ==
    wpc \in {"written", "read"}
        => /\ Rejoin(out) = SplitLines(string)
           /\ \A i \in 1..Len(out) : out[i].data # <<>>

\* C30, amended: cont ends, the first segment of a line and its CONC
\* segments put together are the line, every CONC segment and every segment
\* followed by a CONC segment is non-empty, and a segment is empty only when
\* it is a whole empty line of the value.
C30_Lossless ==
    wpc \in {"written", "read"}
        => /\ Rejoin(out) = SplitLines(string)
           /\ \A i \in 1..Len(out) :
                 /\ out[i].tag = "CONC" => out[i].data # <<>> /\ out[i - 1].data # <<>>
                 /\ out[i].data = <<>>
                       => \E k \in 1..Len(SplitLines(string)) : SplitLines(string)[k] = <<>>

\* a value with an empty line and a line of 249 bytes after it: an empty CONT
\* line, then a CONT line and its CONC line
C30_Witness ==
    /\ wpc = "written"
    /\ Len(out) = 4
    /\ out[2].tag = "CONT" /\ out[2].data = <<>>
    /\ out[3].tag = "CONT" /\ out[4].tag = "CONC"
    /\ out[3].data \o out[4].data = SplitLines(string)[3]

\* C26: referential integrity. When no method of the Tree is running, every
\* key in an individual's famc or fams is a key of Tree.fam, the father and
\* the mother of a key of Tree.fam are None or in Tree.indi, and the children
\* of a family are in Tree.indi: reset_num finds every key it looks up.
C26_ReferentialIntegrity ==
    call = "none"
        => /\ \A x \in DOMAIN indi :
                 indi[x].famc_fid \cup indi[x].fams_fid \subseteq DOMAIN fam
           /\ \A k \in DOMAIN fam :
                 /\ k[1] # None => k[1] \in DOMAIN indi
                 /\ k[2] # None => k[2] \in DOMAIN indi
                 /\ fam[k].chil_fid \subseteq DOMAIN indi

\* after a failed fetch of the father B: A and C are in the table, C has the
\* family (None, C) with the child A, and nothing refers to B
C26_Witness ==
    /\ call = "none"
    /\ "B" \notin DOMAIN indi /\ "A" \in DOMAIN indi /\ "C" \in DOMAIN indi
    /\ <<None, "C">> \in DOMAIN fam
    /\ <<"B", "C">> \in indi["A"].parents
    /\ <<None, "C">> \in indi["C"].fams_fid
    /\ <<None, "C">> \in indi["A"].famc_fid
    /\ "A" \in fam[<<None, "C">>].chil_fid
    /\ <<"B", "C">> \notin DOMAIN fam

(***************************************************************************)
(* Claims about Merge.save.                                                *)
(***************************************************************************)

\* the texts of tree.notes
NoteTexts == {notes[i].text : i \in 1..Len(notes)}

MergeStepButSealing ==
    /\ IF ged'.indi.present
          THEN /\ mtree'.indi.present
               /\ mtree.indi.present => mtree'.indi.num = mtree.indi.num
               /\ mtree'.indi.name = ged'.indi.name
               /\ {notes'[i].text : i \in mtree'.indi.notes}
                     = (IF ged'.indi.note = "-" THEN {} ELSE {ged'.indi.note})
               /\ mtree'.indi.notes \cap (1..Len(notes)) = {}
               /\ mtree'.indi.famc_fid = mtree.indi.famc_fid \cup ged'.indi.famc_fid
          ELSE mtree'.indi = mtree.indi
    /\ IF ged'.fam.present
          THEN /\ mtree'.fam.present
               /\ mtree.fam.present => mtree'.fam.num = mtree.fam.num
               /\ mtree'.fam.fid = ged'.fam.fid
               /\ {notes'[i].text : i \in mtree'.fam.notes}
                     = (IF ged'.fam.note = "-" THEN {} ELSE {ged'.fam.note})
               /\ mtree'.fam.notes \cap (1..Len(notes)) = {}
               /\ mtree'.fam.chil_fid = mtree.fam.chil_fid \cup ged'.fam.chil_fid
          ELSE mtree'.fam = mtree.fam

SourRecords == {[num |-> mtree.sources[id], fid |-> id] : id \in {i \in SrcIds : mtree.sources[i] # 0}}

\* C27: source references survive a merge. In the printed file no two SOUR
\* records have the same number, and the link under X has the number of the
\* SOUR record with the REFN that the link had in its file.
C27_SourceLinksSurvive ==
    spc = "printed"
        => /\ \A r, q \in SourRecords : r.num = q.num => r = q
           /\ mtree.indi.sour # NoSour
                 => \E r \in SourRecords :
                       /\ r.fid = mtree.indi.sour.fid
                       /\ r.num = mtree.indi.sour.num

\* C28: the child-sealing link survives a merge. In the printed file the
\* number in the FAMC line under SLGC of X, when the sealing pointed to K in
\* its file, is the number of K.
C28_SealingFamcSurvives ==
    (spc = "printed" /\ Resolved(mtree.indi.sealing_child) /\ mtree.indi.sealing_K)
        => SlgcNum(mtree.indi.sealing_child) = mtree.fam.num

(***************************************************************************)
(* Claims about the decoder's reader.                                      *)
(***************************************************************************)
\* C29: the decoder terminates on every finite input, a file cut after any
\* line included (one that ends with a NOTE record and no trailer, say):
\* __parse returns.
C29_DecoderTerminates == <>(calls = <<>>)

(***************************************************************************)
(* Claims about the detail tasks                                           *)
(***************************************************************************)

\* C5: a get_url that returns None is never fatal: the task that got None
\* raises no error and goes on to its end.
C5_FetchFailureNotFatal ==
    \A t \in Threads : failed[t] => tpc[t] # "raised"

\* C6: one Source entity per source id: no two Source objects were made for one
\* id, and every Source an Indi or Fam holds is the one Tree.sources maps its
\* id to.
C6_OneSourcePerId ==
    /\ \A i, j \in 1..Len(srcObj) : srcObj[i].fid = srcObj[j].fid => i = j
    /\ \A t \in Threads : \A o \in held[t] : sources[srcObj[o].fid] = o

(***************************************************************************)
(* Claims about the session                                                *)
(***************************************************************************)

\* C7: single-flight re-login: at most one login() is in progress at any time,
\* and no request is sent with the session's credentials while another thread
\* is between the start and the completion of a re-login.
C7_SingleFlightRelogin ==
    /\ Cardinality({t \in Threads : InLogin(t)}) <= 1
    /\ \A t \in Threads : pc[t] = "wait" => ~sentInLogin[t]

\* C8: after a 401 and the login() it triggers, the request get_url sends again
\* carries the credentials that login obtained (or newer ones), never the
\* credentials that were just rejected.
C8_ResendCarriesNewCredentials ==
    \A t \in Threads :
        (pc[t] = "wait" /\ myTok[t] # 0) => reqTok[t] >= myTok[t]

\* C9 as stated: after a read timeout or a connection error get_url waits the
\* configured delay and sends again; it never returns because of such a
\* failure, only once a response has been received.
C9_RetryAfterDelayOriginal ==
    \A t \in Threads :
        /\ lastFail[t] \in {"timeout", "connerr"}
              => (pc[t] \in {"sleep", "send"} /\ ret[t] = "-")
        /\ (pc[t] = "send" /\ lastFail[t] \in {"timeout", "connerr"}) => slept[t]
        /\ pc[t] = "done" => status[t] # 0

\* C9 as amended: after a connection error get_url waits the configured delay
\* and sends again; after a read timeout it sends again at once, without the
\* delay; nothing bounds the retries (the send is always enabled again); it
\* never returns because of such a failure, only once a response has been
\* received.
C9_TransientRetry ==
    \A t \in Threads :
        /\ lastFail[t] \in {"timeout", "connerr"}
              => (pc[t] \in {"sleep", "send"} /\ ret[t] = "-")
        /\ (pc[t] = "send" /\ lastFail[t] = "connerr") => slept[t]
        /\ (pc[t] = "send" /\ lastFail[t] = "timeout") => ~slept[t]
        /\ pc[t] = "send" => ENABLED Send(t)
        /\ pc[t] = "done" => (status[t] # 0 /\ lastFail[t] = "none")

\* one thread is about to send again after a connection error and its sleep,
\* another one after a read timeout
C9_Witness ==
    \E t, u \in Threads :
        /\ pc[t] = "send" /\ lastFail[t] = "connerr" /\ slept[t]
        /\ pc[u] = "send" /\ lastFail[u] = "timeout"

\* C10: a response with status 404, 405, 410 or 500, or a 200 whose body does
\* not decode, makes get_url return None in its next step: no further send,
\* no login, the credentials untouched.
C10_SoftAbsent ==
    [][\A t \in Threads :
          ( /\ pc[t] = "got"
            /\ \/ status[t] \in {404, 405, 410, 500}
               \/ (status[t] = 200 /\ body[t] = "garbage")
            /\ pc'[t] # pc[t] )
          => ( /\ pc'[t] = "done"
               /\ ret'[t] = None
               /\ fssessionid' = fssessionid
               /\ nextTok' = nextTok )]_vars

\* one thread has returned None for a 500, another for an undecodable 200
C10_Witness ==
    \E t, u \in Threads :
        /\ pc[t] = "done" /\ status[t] = 500 /\ ret[t] = None
        /\ pc[u] = "done" /\ status[u] = 200 /\ body[u] = "garbage" /\ ret[u] = None

(***************************************************************************)
(* Claims about the fan-outs of a run and its finally block.               *)
(***************************************************************************)
\* C21: the detail tasks that run concurrently in one fan-out write disjoint
\* entity fields: no field of an individual or of a union is written by two
\* tasks of the same fan-out.
C21_DisjointWrites ==
    \A w1 \in wlog : \A w2 \in wlog :
       (w1[2] = w2[2] /\ w1[3] = w2[3]) => w1[1] = w2[1]

\* C22: the relationship id of a Union is assigned at most once: after the
\* first add_marriage stored it, no other call on that Union, concurrent
\* calls included, stores an id, adds facts or sources, or issues a request.
C22_FidAssignedOnce ==
    /\ Len(assigned) <= 1
    /\ \A q \in mreqs : assigned # <<>> /\ q[1] = assigned[1] /\ q[2] = assigned[1]
    /\ \A x \in tfam.facts : assigned # <<>> /\ x = assigned[1]

\* C23: once the login has passed, reset_num runs exactly once, after every
\* step of the acquisition has ended and before Tree.print writes, also when
\* an error has cut the acquisition short.
C23_ResetAfterAcquisition ==
    /\ resets <= 1
    /\ rpc \in {"print", "printed"} => resets = 1
    /\ busy = {}

\* C24: in a batch of add_indis the entry of a person is in the table before
\* that person's add_data is dispatched, and the relationship tuples are
\* recorded only when every add_data of the batch has ended; add_spouses and
\* the last fan-out return only when every task they dispatched has ended.
C24_BatchOrderAndJoin ==
    /\ \A i \in 1..Len(Persons) :
          job[<<"add_data", Persons[i]>>] # "none" => Persons[i] \in tindi
    /\ recorded => \A i \in 1..Len(Persons) : job[<<"add_data", Persons[i]>>] = "done"
    /\ "add_spouses" \in ended =>
          \A r \in RelIds : job[<<"add_marriage", r>>] \in {"none", "done"}
    /\ "download_stuff" \in ended => \A j \in Jobs : job[j] \in {"none", "done"}

\* every fan-out has returned: two add_marriage tasks, eight detail tasks
C24_Witness ==
    /\ ended = {"add_indis", "add_spouses", "download_stuff"}
    /\ recorded
    /\ \A r \in RelIds : job[<<"add_marriage", r>>] = "done"
    /\ \A j \in Jobs : job[j] = "done"
    /\ rpc = "printed"

====
